---- MODULE Spec2Model ----
(***************************************************************************)
(* Model of the MandalaNode control plane for one tenant ("project"):      *)
(*   - the payment handler   router.post('/:projectId/pay')                *)
(*   - the billing debit     utils/billing.ts (billProjects)               *)
(*   - the deployment record router.post('/:projectId/deploy')             *)
(*   - the upload pipeline   routes/upload.ts                              *)
(*   - the tenant deletion   router.post('/:projectId/delete')             *)
(* Node runs every handler on one thread: a handler runs without           *)
(* interruption from one `await` to the next (execSync blocks the whole    *)
(* process), and at every `await` any other handler may run.  Each action  *)
(* below is one such uninterrupted segment of a handler.                   *)
(***************************************************************************)
EXTENDS Integers, Sequences, FiniteSets, TLC

\* ------------------------------------------------------------------ bounds
MaxPays    == 2   \* concurrent POST /:projectId/pay requests
MaxBilled  == 3   \* total satoshis the billing cron debits
MaxCost    == 2   \* largest cost of one billing window, in satoshis
MaxUploads == 2   \* upload requests
MaxDeploys == 2   \* deployment records (deployment ids)
MaxTargets == 2   \* entries of a manifest's deployments array
MaxDomainReqs == 2   \* POST /:projectId/domains/<role> requests
MaxTime    == 2   \* ticks of the clock
UrlValidity == 1  \* ticks a signed upload URL is meant to stay valid
MaxPushLen == 65536  \* longest byte string handed to minimalPush
MaxAdminReqs == 3    \* POST /:projectId/addAdmin and /removeAdmin requests
MaxTeeReqs == 2      \* POST /tee/attestation/register requests

PayReqs  == 1..MaxPays
UpReqs   == 1..MaxUploads
DeployIds == 1..MaxDeploys
DomReqs  == 1..MaxDomainReqs
AdminReqs == 1..MaxAdminReqs
TeeReqs  == 1..MaxTeeReqs

\* amounts a caller may put in the body of a pay request
Amounts == {0, 1, 5}

VARIABLES
  \* ---- relational store
  balance,              \* projects.balance of the tenant
  project_accounting,   \* the ledger: sequence of rows [type, amount_sats, balance_after]
  logs,                 \* rows of the logs table, as a set of [src, id, msg]
  deploys,              \* deployment_uuid -> [exists, file_path]
  \* ---- cluster, registry, local staging area
  release,              \* the tenant's helm release: [installed, by, partial]
  ingress,              \* TRUE iff the tenant's Ingress resources exist in its namespace
  registry,             \* image references pushed: set of [component, tag, body]
  artifact,             \* /tmp/artifact_<deploymentId>.tgz: deployment id -> body (0 = no file)
  \* ---- POST /:projectId/pay requests
  payPc,                \* position of each pay request
  payProject,           \* req.project.balance as loaded by requireProject
  payAmount,            \* req.body.amount
  enableIngressCalls,   \* number of enableIngress calls each pay request made
  \* ---- billing cron
  billed,               \* satoshis debited by the billing cron so far
  start,                \* the tenant as it was before any of the modelled requests ran
  \* ---- upload requests
  upPc,                 \* position of each upload request
  upReq,                \* the request: [deploymentId, signature, serviceName, manifest]
  upProject,            \* project.balance as read by the upload handler
  ran,                  \* the external stages each upload request has started, in order
  upError,              \* the stage whose failure the request's catch block handles ("" = none)
  deployState,          \* deployment id -> the pipeline state its latest handler step put it in
  upResponse,           \* what each upload request answered ("" = nothing yet)
  notified,             \* the failure email of each upload request: "none", "sent", "error"
  advertised,           \* the refreshAdvertisement call of each upload request
  \* ---- helm chart staging and the applied topology
  staging,              \* deployment id -> the chart under /tmp/build_<deploymentId>/helm
  topology,             \* the resources helm has applied: set of [namespace, release, chart]
  \* ---- node and tenant deletion
  dockerfile,           \* deployment id -> the Dockerfile in the agent's build context
  env,                  \* process.env of the node: [GPU_ENABLED]
  deletePc,             \* position of the POST /:projectId/delete request
  \* ---- tenant configuration, custom domains, time
  project,              \* the other columns of the tenant's projects row
  dns,                  \* the TXT records published in the DNS: set of [host, txt]
  domReq,               \* the POST /:projectId/domains/<role> requests
  clock,                \* [now, issued, arrived]: the time, when each upload URL was
                        \* issued and when each upload request arrived
  \* ---- request bodies
  payType,              \* typeof req.body.amount of each pay request
  \* ---- PushDrop locking scripts
  field,                \* the byte string handed to minimalPush
  pushed,               \* the bytes minimalPush returned for it (<<>> = not called yet)
  \* ---- project admins
  project_admins,       \* identity keys of the rows of project_admins of the tenant
  adminReq,             \* the addAdmin / removeAdmin requests
  \* ---- TEE attestations
  tee_attestations,     \* rows of the table: set of [attestation_txid, node_identity_key, is_current]
  teeReq                \* the POST /tee/attestation/register requests

storeVars   == <<balance, project_accounting, logs, deploys>>
clusterVars == <<release, ingress, registry, artifact>>
payVars     == <<payPc, payProject, payAmount, enableIngressCalls>>
upVars      == <<upPc, upReq, upProject, ran, upError, deployState>>
billVars    == <<billed, start>>
outVars     == <<upResponse, notified, advertised>>
chartVars   == <<staging, topology, dockerfile>>
nodeVars    == <<env, deletePc>>
tenantVars  == <<project, dns, domReq, clock>>
pushVars    == <<field, pushed>>
adminVars   == <<project_admins, adminReq>>
teeVars     == <<tee_attestations, teeReq>>
sideVars    == <<pushVars, adminVars, teeVars>>
bodyVars    == <<payType>>
vars == <<storeVars, clusterVars, payVars, billVars, upVars, outVars, chartVars, nodeVars, tenantVars,
         sideVars, bodyVars>>

\* ------------------------------------------------------------ the ledger
Credit(amount, after) == [type |-> "credit", amount_sats |-> amount, balance_after |-> after]
Debit(amount, after)  == [type |-> "debit",  amount_sats |-> amount, balance_after |-> after]

RECURSIVE LedgerSum(_)
\* the net change of balance the ledger rows record
LedgerSum(rows) ==
  IF rows = <<>> THEN 0
  ELSE LET r == Head(rows) IN
       (IF r.type = "credit" THEN r.amount_sats ELSE 0 - r.amount_sats) + LedgerSum(Tail(rows))

NoRelease     == [installed |-> FALSE, by |-> 0, partial |-> FALSE]
Revision(r)   == [installed |-> TRUE,  by |-> r, partial |-> FALSE]

\* ------------------------------------------------------------ the tenant
\* project.project_uuid of the tenant, 32 hex digits; another tenant's uuid
ProjectUuid == [i \in 1..32 |-> "a"]
OtherUuid   == [i \in 1..32 |-> "b"]

\* project.network
ProjectNetwork == "mainnet"

\* String.prototype.substr(start, length)
Substr(str, from, len) ==
  SubSeq(str, from + 1, IF from + len < Len(str) THEN from + len ELSE Len(str))

\* `mandala-project-${project.project_uuid}`
Namespace(uuid) == <<"mandala-project-">> \o uuid

\* `mandala-project-${project.project_uuid.substr(0, 24)}`
ReleaseName(uuid) == <<"mandala-project-">> \o Substr(uuid, 0, 24)

\* ------------------------------------------------------------ paths
\* A path is the sequence of its segments; a segment is a name and, where the
\* code puts a deployment id into the name, that id (0: the name holds none).
Seg(name)       == [name |-> name, id |-> 0]
Scoped(name, d) == [name |-> name, id |-> d]

\* path.join(base, rel): the segments of rel after those of base, "." dropped
\* and ".." taking the segment before it away
RECURSIVE Normalize(_, _)
Normalize(done, rest) ==
  IF rest = <<>> THEN done
  ELSE IF Head(rest).name = "." THEN Normalize(done, Tail(rest))
  ELSE IF Head(rest).name = ".."
       THEN Normalize(IF done = <<>> THEN done ELSE SubSeq(done, 1, Len(done) - 1), Tail(rest))
  ELSE Normalize(Append(done, Head(rest)), Tail(rest))

PathJoin(base, rel) == Normalize(<<>>, base \o rel)

\* upload.ts:90  path.join('/tmp', `artifact_${deploymentId}.tgz`)
FilePath(d) == <<Seg("tmp"), Scoped("artifact_.tgz", d)>>

\* upload.ts:96  path.join('/tmp', `build_${deploymentId}`)
UploadDir(d) == <<Seg("tmp"), Scoped("build_", d)>>

\* the agent.buildContext of the manifests below: a directory of the artifact
AppContext == <<Seg("app")>>

\* an agent.buildContext that names the build context of deployment d
\* from the working directory of any other: "../build_<d>/app"
ContextOf(d) == <<Seg(".."), Scoped("build_", d), Seg("app")>>

\* ------------------------------------------------------------ manifests
\* An image reference of the chart values: null, the reference the manifest
\* gives, or <registry>/mandala-project-<uuid>/<component>:<deploymentId>
NoImage          == [kind |-> "null",     tag |-> 0]
ManifestImage    == [kind |-> "manifest", tag |-> 0]
BuiltImage(d)    == [kind |-> "built",    tag |-> d]

\* one entry of manifest.deployments
Target(provider, projectID, network) ==
  [provider |-> provider, projectID |-> projectID, network |-> network]

\* the entries a manifest may declare (<<>> and "" stand for an absent field)
TargetKinds ==
  { Target("mandala", ProjectUuid, "mainnet"),
    Target("mandala", ProjectUuid, "testnet"),
    Target("mandala", ProjectUuid, ""),
    Target("mandala", OtherUuid,   "mainnet"),
    Target("other",   ProjectUuid, "mainnet") }

TargetLists == UNION { [1..n -> TargetKinds] : n \in 0..MaxTargets }

\* rawManifest.services: absent, or an object whose own keys are `names`
NoServices      == [present |-> FALSE, names |-> {}]
Services(names) == [present |-> TRUE,  names |-> names]

\* keys every object inherits from Object.prototype (constructor, toString,
\* hasOwnProperty, __proto__, ...): a property read finds them too
ObjectPrototype == {"constructor"}

\* the names of environment variables a manifest or a tenant config may set, in
\* the order their entries are listed, and the value of a key that is not set
EnvKeys   == <<"LOG_LEVEL", "NETWORK">>
Undefined == "undefined"

\* an env object: every key of EnvKeys -> its value, Undefined when the key is absent
EnvObject(level, network) == [LOG_LEVEL |-> level, NETWORK |-> network]
NoEnv == EnvObject(Undefined, Undefined)

\* manifest.ports: undefined, or an array of port numbers
NoPorts     == [present |-> FALSE, list |-> <<>>]
Ports(list) == [present |-> TRUE, list |-> list]

\* agent-manifest.json, by what the handler reads of it; a manifest of these
\* parameters declares no databases, no env, agent.type 'custom', no agent.dockerfile
\* and the agent.buildContext "app", and has no ports key
RawManifest(schema, schemaVersion, services, gpu, targets, agentImage, frontend, frontendImage, storage) ==
  [schema |-> schema, schemaVersion |-> schemaVersion, services |-> services,
   gpu |-> gpu, targets |-> targets, agentImage |-> agentImage, frontend |-> frontend,
   frontendImage |-> frontendImage, storage |-> storage,
   databases |-> {}, env |-> NoEnv, agentType |-> "custom", dockerfile |-> FALSE,
   buildContext |-> AppContext, ports |-> NoPorts]

\* A v1 manifest naming this tenant and its network; `valid` FALSE: the schema
\* marker is not 'mandala-agent'.
Manifest(valid, agentImage, frontend, frontendImage) ==
  RawManifest(valid, "1.0", NoServices, FALSE,
              <<Target("mandala", ProjectUuid, ProjectNetwork)>>,
              agentImage, frontend, frontendImage, FALSE)

\* the same with storage.enabled
WithStorage(m) == [m EXCEPT !.storage = TRUE]

\* the same with databases: { mysql, mongo, redis } true for the names in dbs
WithDatabases(m, dbs) == [m EXCEPT !.databases = dbs]

\* the same with env
WithEnv(m, e) == [m EXCEPT !.env = e]

\* the same with agent.type and, when dockerfile, an agent.dockerfile path
WithAgent(m, type, file) == [m EXCEPT !.agentType = type, !.dockerfile = file]

\* the same with ports
WithPorts(m, ports) == [m EXCEPT !.ports = ports]

\* the same with agent.buildContext
WithBuildContext(m, context) == [m EXCEPT !.buildContext = context]

NoManifest == Manifest(FALSE, FALSE, FALSE, FALSE)

\* ------------------------------------------------------ the projects row
\* a host name, as the sequence of the parts the code puts together with dots;
\* <<>> is null (no custom domain, no frontend)
NoHost == <<>>

\* the columns of the projects row the handlers read besides the balance
ProjectRow(frontendDomain, backendDomain, config, funding) ==
  [frontend_custom_domain |-> frontendDomain, backend_custom_domain |-> backendDomain,
   agent_config |-> config, requires_blockchain_funding |-> funding]

\* init-cluster.ts:431-432  the row of a new project: agent_config '{}', no custom
\* domains, requires_blockchain_funding false unless asked for
NewProject == ProjectRow(NoHost, NoHost, NoEnv, FALSE)

\* the projects row as a handler reads it: the balance b and the other columns
ReadProject(b, row) ==
  [balance |-> b,
   frontend_custom_domain |-> row.frontend_custom_domain,
   backend_custom_domain |-> row.backend_custom_domain,
   agent_config |-> row.agent_config,
   requires_blockchain_funding |-> row.requires_blockchain_funding]

\* ------------------------------------------------------------ helm charts
\* templates of the chart that are written only under a condition
\* (upload.ts:907 agent-pvc.yaml, upload.ts:676 www-ingress.yaml); all the
\* others are written by every run
AlwaysFiles ==
  {"deployment.yaml", "hpa.yaml", "service.yaml", "ingress.yaml",
   "mysql-statefulset.yaml", "mongo-statefulset.yaml", "redis.yaml"}

ChartFiles(m, p) ==
  AlwaysFiles \cup (IF m.storage THEN {"agent-pvc.yaml"} ELSE {})
              \cup (IF p.frontend_custom_domain # NoHost THEN {"www-ingress.yaml"} ELSE {})

\* `${project.project_uuid}.${projectsDomain}`
IngressHost == "uuid.projects-domain"

\* upload.ts:320 ingressHostFrontend, upload.ts:322 ingressHostBackend
IngressHostFrontend(m) == IF m.frontend THEN <<"frontend", IngressHost>> ELSE NoHost
IngressHostBackend     == <<"agent", IngressHost>>

\* `www.{{ h }}` of a template
Www(h) == <<"www">> \o h

\* valuesObj of the chart
ChartValues(m, d, p) ==
  [agentImage    |-> IF m.agentImage THEN ManifestImage ELSE BuiltImage(d),
   frontendImage |-> IF ~m.frontend THEN NoImage
                     ELSE IF m.frontendImage THEN ManifestImage ELSE BuiltImage(d),
   frontend      |-> m.frontend,
   storage       |-> m.storage,
   ingressHostFrontend   |-> IngressHostFrontend(m),
   ingressCustomFrontend |-> p.frontend_custom_domain,
   ingressHostBackend    |-> IngressHostBackend,
   ingressCustomBackend  |-> p.backend_custom_domain,
   useMySQL |-> "mysql" \in m.databases,
   useMongo |-> "mongo" \in m.databases,
   useRedis |-> "redis" \in m.databases]

\* an autoscaler that scales a GPU workload like any other
HpaMaxReplicasAlways(gpu) == 10

\* upload.ts:479  hpaMaxReplicas = manifest.resources?.gpu ? 1 : 10
HpaMaxReplicas(gpu) == IF gpu THEN 1 ELSE 10

\* upload.ts:480-502  hpa.yaml
Hpa(m) == [minReplicas |-> 1, maxReplicas |-> HpaMaxReplicas(m.gpu)]

\* upload.ts:541-552  tlsHosts, the host list of the Ingress's one tls entry
TlsHosts(m, p) ==
  (IF m.frontend
   THEN {IngressHostFrontend(m)}
          \cup (IF p.frontend_custom_domain # NoHost THEN {p.frontend_custom_domain} ELSE {})
   ELSE {})
    \cup {IngressHostBackend}
    \cup (IF p.backend_custom_domain # NoHost THEN {p.backend_custom_domain} ELSE {})

\* upload.ts:604-668  the hosts of the Ingress's rules
RuleHosts(m, p) ==
  (IF m.frontend
   THEN {IngressHostFrontend(m)}
          \cup (IF p.frontend_custom_domain # NoHost
                THEN {p.frontend_custom_domain, Www(p.frontend_custom_domain)} ELSE {})
   ELSE {})
    \cup {IngressHostBackend}
    \cup (IF p.backend_custom_domain # NoHost THEN {p.backend_custom_domain} ELSE {})

\* an Ingress resource: the host lists of its tls entries (one list per entry)
\* and the hosts of its rules
IngressOf(tls, rules) == [tls |-> tls, rules |-> rules]

\* upload.ts:586-674  ingress.yaml: one tls entry
Ingress(m, p) == IngressOf({TlsHosts(m, p)}, RuleHosts(m, p))

\* upload.ts:556-585  www-ingress.yaml: a second Ingress with a tls entry of its
\* own for www.<custom frontend domain> and a rule for www.<generated frontend host>
WwwIngress(m, p) ==
  IngressOf({{Www(p.frontend_custom_domain)}}, {Www(IngressHostFrontend(m))})

NoIngress == IngressOf({}, {})

\* upload.ts:314  agentPorts = manifest.ports || (agidentity ? [3000] : [8080]):
\* every array is truthy, the empty one too
AgentPorts(m) ==
  IF m.ports.present THEN m.ports.list
  ELSE IF m.agentType = "agidentity" THEN <<3000>> ELSE <<8080>>

\* agentPorts[0] of an empty array: undefined
UndefinedPort == 0 - 1

\* upload.ts:554  primaryAgentPort = agentPorts[0]
PrimaryAgentPort(m) == IF AgentPorts(m) = <<>> THEN UndefinedPort ELSE AgentPorts(m)[1]

\* upload.ts:508-511  servicePortsYaml: entry i is named agent (i = 0) or agent-<i>
ServicePorts(m) ==
  [i \in 1..Len(AgentPorts(m)) |-> [port |-> AgentPorts(m)[i], name |-> "agent", index |-> i - 1]]

\* upload.ts:513-536  service.yaml: clusterIP None, the agent entries under
\* {{- if .Values.agentImage }}, the frontend entry under {{- if .Values.frontendImage }}
ServiceTemplate(m) ==
  [clusterIP |-> "None",
   ifAgentImage |-> ServicePorts(m),
   ifFrontendImage |-> <<[port |-> 80, name |-> "frontend", index |-> 0]>>]

\* the Service helm renders from the template with the chart's values
Service(template, values) ==
  [clusterIP |-> template.clusterIP,
   ports |-> (IF values.agentImage # NoImage THEN template.ifAgentImage ELSE <<>>)
               \o (IF values.frontendImage # NoImage THEN template.ifFrontendImage ELSE <<>>)]

\* upload.ts:604-668  the rules of ingress.yaml, each a host and the port of the
\* tenant's Service it routes to
Routes(m, p) ==
  (IF m.frontend
   THEN {[host |-> IngressHostFrontend(m), port |-> 80]}
          \cup (IF p.frontend_custom_domain # NoHost
                THEN {[host |-> p.frontend_custom_domain, port |-> 80],
                      [host |-> Www(p.frontend_custom_domain), port |-> 80]} ELSE {})
   ELSE {})
    \cup {[host |-> IngressHostBackend, port |-> PrimaryAgentPort(m)]}
    \cup (IF p.backend_custom_domain # NoHost
          THEN {[host |-> p.backend_custom_domain, port |-> PrimaryAgentPort(m)]} ELSE {})

\* upload.ts:276-279  mergedEnv = { ...manifest.env, ...agentConfigObj }
MergedEnv(manifestEnv, config) ==
  [k \in DOMAIN manifestEnv |-> IF config[k] # Undefined THEN config[k] ELSE manifestEnv[k]]

\* upload.ts:357-364  SERVER_PRIVATE_KEY and NETWORK of a tenant that requires funding
FundingEnv(p) ==
  IF p.requires_blockchain_funding
  THEN << [name |-> "SERVER_PRIVATE_KEY", value |-> "private_key"],
          [name |-> "NETWORK", value |-> ProjectNetwork] >>
  ELSE <<>>

\* upload.ts:349-364  envYaml: one entry per key of mergedEnv, then the funding entries
EnvYaml(m, p) ==
  LET merged  == MergedEnv(m.env, p.agent_config)
      entries == [i \in 1..Len(EnvKeys) |-> [name |-> EnvKeys[i], value |-> merged[EnvKeys[i]]]]
  IN SelectSeq(entries, LAMBDA e : e.value # Undefined) \o FundingEnv(p)

\* the templates every run writes anew: hpa.yaml, ingress.yaml with the ports its
\* rules route to, the env list of deployment.yaml, service.yaml
Templates(m, p) ==
  [hpa |-> Hpa(m), ingress |-> Ingress(m, p), env |-> EnvYaml(m, p),
   service |-> ServiceTemplate(m), routes |-> Routes(m, p)]

\* the chart a run writes into an empty helm directory; www is the content of
\* www-ingress.yaml, NoIngress when the file is not there
Compile(m, d, p) ==
  [files |-> ChartFiles(m, p), values |-> ChartValues(m, d, p), templates |-> Templates(m, p),
   www |-> IF p.frontend_custom_domain # NoHost THEN WwwIngress(m, p) ELSE NoIngress]

NoChart == [files |-> {}, values |-> ChartValues(NoManifest, 0, NewProject),
            templates |-> Templates(NoManifest, NewProject), www |-> NoIngress]

\* helm template: the kinds of the resources the chart renders to.  The database
\* templates are wrapped in {{- if .Values.useMySQL }} (useMongo, useRedis); the
\* other templates render whenever their file is in the chart.
Kinds(chart) ==
  {"Workload", "Service", "Autoscaler", "Ingress"}
    \cup (IF "mysql-statefulset.yaml" \in chart.files /\ chart.values.useMySQL THEN {"MySQL"} ELSE {})
    \cup (IF "mongo-statefulset.yaml" \in chart.files /\ chart.values.useMongo THEN {"MongoDB"} ELSE {})
    \cup (IF "redis.yaml" \in chart.files /\ chart.values.useRedis THEN {"Redis"} ELSE {})
    \cup (IF "agent-pvc.yaml" \in chart.files THEN {"PersistentVolumeClaim"} ELSE {})

\* the resources of a release as helm applied them
Applied(namespace, name, chart) == [namespace |-> namespace, release |-> name, chart |-> chart]

\* ------------------------------------------------------------ initial states
\* A tenant as the program leaves it before the modelled requests arrive:
\*   fresh     : just created (balance 0, nothing deployed)
\*   funded    : paid 1 satoshi, a release rolled out, ingress present
\*   suspended : paid 1, deployed, billed 2: balance -1, ingress removed
Tenants ==
  { [balance |-> 0,  ledger |-> <<>>,                           release |-> NoRelease,   ingress |-> FALSE],
    [balance |-> 1,  ledger |-> <<Credit(1, 1)>>,               release |-> Revision(0), ingress |-> TRUE],
    [balance |-> 0 - 1, ledger |-> <<Credit(1, 1), Debit(2, 0 - 1)>>, release |-> Revision(0), ingress |-> FALSE] }

\* the chart of revision 0: pre-built agent and frontend images
RevisionZero ==
  Applied(Namespace(ProjectUuid), ReleaseName(ProjectUuid),
          Compile(Manifest(TRUE, TRUE, TRUE, TRUE), 0, NewProject))

NoRequest == [deploymentId |-> 0, signature |-> FALSE, serviceName |-> "", manifest |-> NoManifest]

NoDomReq == [pc |-> "idle", role |-> "", domain |-> NoHost, lookup |-> "", response |-> ""]

\* the node started with GPU_ENABLED=true (gpu) or without it, the tenant's
\* projects row being `row`
InitStore(gpu, row) ==
  \E t \in Tenants :
    /\ balance = t.balance
    /\ start = t
    /\ project_accounting = t.ledger
    /\ release = t.release
    /\ ingress = t.ingress
    /\ logs = {}
    /\ deploys = [d \in DeployIds |-> [exists |-> FALSE, file_path |-> FALSE]]
    /\ registry = {}
    /\ artifact = [d \in DeployIds |-> 0]
    /\ payPc = [r \in PayReqs |-> "idle"]
    /\ payProject = [r \in PayReqs |-> 0]
    /\ payAmount = [r \in PayReqs |-> 0]
    /\ payType = [r \in PayReqs |-> "number"]
    /\ enableIngressCalls = [r \in PayReqs |-> 0]
    /\ billed = 0
    /\ upPc = [r \in UpReqs |-> "idle"]
    /\ upReq = [r \in UpReqs |-> NoRequest]
    /\ upProject = [r \in UpReqs |-> ReadProject(0, NewProject)]
    /\ ran = [r \in UpReqs |-> <<>>]
    /\ upError = [r \in UpReqs |-> ""]
    /\ deployState = [d \in DeployIds |-> "None"]
    /\ upResponse = [r \in UpReqs |-> ""]
    /\ notified = [r \in UpReqs |-> "none"]
    /\ advertised = [r \in UpReqs |-> "none"]
    /\ staging = [d \in DeployIds |-> NoChart]
    /\ topology = IF t.release.installed THEN {RevisionZero} ELSE {}
    /\ env = [GPU_ENABLED |-> gpu]
    /\ deletePc = "idle"
    /\ dockerfile = [d \in DeployIds |-> "none"]
    /\ project = row
    /\ dns = {}
    /\ domReq = [k \in DomReqs |-> NoDomReq]
    /\ clock = [now |-> 0, issued |-> [d \in DeployIds |-> 0], arrived |-> [r \in UpReqs |-> 0]]

\* no locking script is being built
NoPush == field = <<>> /\ pushed = <<>>

\* init-cluster.ts:435-438  POST /create makes its caller the tenant's one admin
Creator == "alice"

NoAdminReq == [pc |-> "idle", op |-> "", target |-> "", admins |-> {}, response |-> ""]

InitAdmins ==
  /\ project_admins = {Creator}
  /\ adminReq = [k \in AdminReqs |-> NoAdminReq]

NoTeeReq == [pc |-> "idle", attestationTxid |-> "", nodeIdentityKey |-> "", response |-> ""]

\* the tee_attestations table as the migration creates it
InitTee ==
  /\ tee_attestations = {}
  /\ teeReq = [k \in TeeReqs |-> NoTeeReq]

InitProject(gpu, row) == InitStore(gpu, row) /\ NoPush /\ InitAdmins /\ InitTee

\* a tenant as POST /create made it
InitOn(gpu) == InitProject(gpu, NewProject)

Init == InitOn(FALSE)

\* ------------------------------------------------- POST /:projectId/pay
\* the bodies a caller may send: an amount that is a JSON number
Body(type, amount) == [type |-> type, amount |-> amount]
Bodies == {Body("number", a) : a \in Amounts}

\* init-cluster.ts:458  typeof amount !== 'number'
IsNumber(type) == type = "number"

\* an amount check that only refuses zero
NonZeroAmount(amount) == amount # 0

\* init-cluster.ts:458  the amount check
ValidAmount(amount) == amount > 0

\* a payment that subtracts
NewBalanceSubtracts(oldBalance, amount) == oldBalance - amount

\* init-cluster.ts:462-463
NewBalance(oldBalance, amount) == oldBalance + amount

\* a re-enable test that looks at the new balance only
ReenableWheneverFunded(oldBalance, newBalance) == newBalance >= 0

\* init-cluster.ts:482  "If balance was negative and now is >=0, re-enable ingress"
ReenableNeeded(oldBalance, newBalance) == oldBalance < 0 /\ newBalance >= 0

PayLog(r, msg) == [src |-> "pay", id |-> r, msg |-> msg]

\* requireRegisteredUser, requireProject, requireProjectAdmin: the project row is
\* loaded into req.project; the handler runs after further awaits.
PayRequireProjectFrom(r, bodies) ==
  /\ payPc[r] = "idle"
  /\ (IF r = 1 THEN TRUE ELSE payPc[r - 1] # "idle")   \* requests are numbered as they arrive
  /\ \E b \in bodies :
       /\ payAmount' = [payAmount EXCEPT ![r] = b.amount]
       /\ payType' = [payType EXCEPT ![r] = b.type]
  /\ payProject' = [payProject EXCEPT ![r] = balance]
  /\ payPc' = [payPc EXCEPT ![r] = "handler"]
  /\ UNCHANGED <<sideVars, storeVars, clusterVars, enableIngressCalls, billVars, upVars, outVars, chartVars, nodeVars, tenantVars>>

PayRequireProject(r) == PayRequireProjectFrom(r, Bodies)

\* amount check; db('projects').update({ balance: newBalance })
PayUpdateBalance(r) ==
  /\ payPc[r] = "handler"
  /\ IF ~IsNumber(payType[r]) \/ ~ValidAmount(payAmount[r])
     THEN /\ payPc' = [payPc EXCEPT ![r] = "rejected"]
          /\ UNCHANGED balance
     ELSE /\ balance' = NewBalance(payProject[r], payAmount[r])
          /\ payPc' = [payPc EXCEPT ![r] = "accounting"]
  /\ UNCHANGED <<sideVars, bodyVars, project_accounting, logs, deploys, clusterVars, payProject, payAmount,
                 enableIngressCalls, billVars, upVars, outVars, chartVars, nodeVars, tenantVars>>

\* db('project_accounting').insert({ type: 'credit', ... })
PayInsertAccounting(r) ==
  /\ payPc[r] = "accounting"
  /\ project_accounting' = Append(project_accounting,
        Credit(payAmount[r], NewBalance(payProject[r], payAmount[r])))
  /\ payPc' = [payPc EXCEPT ![r] = "log"]
  /\ UNCHANGED <<sideVars, bodyVars, balance, logs, deploys, clusterVars, payProject, payAmount,
                 enableIngressCalls, billVars, upVars, outVars, chartVars, nodeVars, tenantVars>>

\* db('logs').insert(...); then the re-enable test, or the response
PayInsertLog(r) ==
  /\ payPc[r] = "log"
  /\ logs' = logs \cup {PayLog(r, "Balance increased")}
  /\ payPc' = [payPc EXCEPT ![r] =
        IF ReenableNeeded(payProject[r], NewBalance(payProject[r], payAmount[r]))
        THEN "enableIngress" ELSE "done"]
  /\ UNCHANGED <<sideVars, bodyVars, balance, project_accounting, deploys, clusterVars, payProject, payAmount,
                 enableIngressCalls, billVars, upVars, outVars, chartVars, nodeVars, tenantVars>>

\* utils/ingress.ts enableIngress(project_uuid): re-applies only the Ingress
\* resource of an existing release; its result says whether that worked.
EnableIngress(ok) ==
  /\ ingress' = IF ok THEN TRUE ELSE ingress
  /\ UNCHANGED <<release, registry, artifact>>

\* enableIngress, the log row of its outcome, res.json
PayEnableIngress(r) ==
  /\ payPc[r] = "enableIngress"
  /\ \E ok \in (IF release.installed THEN BOOLEAN ELSE {FALSE}) :
       /\ EnableIngress(ok)
       /\ logs' = logs \cup {PayLog(r, IF ok THEN "Ingress re-enabled" ELSE "Unable to re-enable ingress")}
  /\ enableIngressCalls' = [enableIngressCalls EXCEPT ![r] = @ + 1]
  /\ payPc' = [payPc EXCEPT ![r] = "done"]
  /\ UNCHANGED <<sideVars, bodyVars, balance, project_accounting, deploys, payProject, payAmount, billVars, upVars,
                 outVars, chartVars, nodeVars, tenantVars>>

\* a database call of the handler rejects: the handler ends there (no try/catch,
\* no transaction), whatever it has already written stays written
PayDbError(r) ==
  /\ \/ payPc[r] = "handler" /\ IsNumber(payType[r]) /\ ValidAmount(payAmount[r])
     \/ payPc[r] \in {"accounting", "log"}
  /\ payPc' = [payPc EXCEPT ![r] = "failed"]
  /\ UNCHANGED <<sideVars, bodyVars, storeVars, clusterVars, payProject, payAmount, enableIngressCalls,
                 billVars, upVars, outVars, chartVars, nodeVars, tenantVars>>

\* the steps of the handler proper
PayHandler(r) ==
  \/ PayUpdateBalance(r)
  \/ PayInsertAccounting(r)
  \/ PayInsertLog(r)
  \/ PayEnableIngress(r)
  \/ PayDbError(r)

Pay(r) ==
  \/ PayRequireProject(r)
  \/ PayUpdateBalance(r)
  \/ PayInsertAccounting(r)
  \/ PayInsertLog(r)
  \/ PayEnableIngress(r)
  \/ PayDbError(r)

\* ------------------------------------------------------ billing debit
\* One tenant's debit of the billing cron: read-modify-write of the balance and
\* the ledger row in one transaction; crossing below zero removes the Ingress.
\* Only a tenant with a running release consumes resources.
BillProject(cost) ==
  /\ release.installed
  /\ billed + cost <= MaxBilled
  /\ balance' = balance - cost
  /\ project_accounting' = Append(project_accounting, Debit(cost, balance - cost))
  /\ billed' = billed + cost
  /\ IF balance >= 0 /\ balance - cost < 0
     THEN /\ ingress' = FALSE
          /\ logs' = logs \cup {[src |-> "billing", id |-> 0, msg |-> "Ingress disabled"]}
     ELSE UNCHANGED <<ingress, logs>>
  /\ UNCHANGED <<sideVars, bodyVars, deploys, release, registry, artifact, payVars, start, upVars, outVars,
                 chartVars, nodeVars, tenantVars>>

BillProjects == \E cost \in 1..MaxCost : BillProject(cost)

\* ------------------------------------------- POST /:projectId/deploy
\* A fresh deployment id gets its deploys row; the signed upload URL is returned.
CreateDeploy(d) ==
  /\ deletePc # "done"                                  \* 404 once the projects row is gone
  /\ ~deploys[d].exists
  /\ (IF d = 1 THEN TRUE ELSE deploys[d - 1].exists)   \* ids are numbered as they are drawn
  /\ deploys' = [deploys EXCEPT ![d] = [exists |-> TRUE, file_path |-> FALSE]]
  /\ logs' = logs \cup {[src |-> "deploy", id |-> d, msg |-> "Deployment started"]}
  /\ deployState' = [deployState EXCEPT ![d] = "Created"]
  /\ clock' = [clock EXCEPT !.issued[d] = clock.now]
  /\ UNCHANGED <<sideVars, bodyVars, balance, project_accounting, clusterVars, payVars, billVars,
                 upPc, upReq, upProject, ran, upError, outVars, chartVars, nodeVars,
                 project, dns, domReq>>

\* ------------------------------------------ POST /upload/:deploymentId/:signature
\* The manifests a caller may upload, by what the pipeline does with them.
Manifests ==
  { Manifest(FALSE, FALSE, FALSE, FALSE),   \* fails validation (schema marker)
    Manifest(TRUE,  TRUE,  TRUE,  TRUE),    \* pre-built agent and frontend images
    Manifest(TRUE,  FALSE, FALSE, FALSE),   \* agent built from the artifact, no frontend
    Manifest(TRUE,  FALSE, TRUE,  FALSE),   \* agent and frontend built from the artifact
    WithStorage(Manifest(TRUE, TRUE, TRUE, TRUE)) }   \* pre-built images, agent volume

Requests ==
  { [deploymentId |-> d, signature |-> s, serviceName |-> "", manifest |-> m] :
      d \in DeployIds, s \in BOOLEAN, m \in Manifests }

\* the values of ?serviceName= / x-mandala-service a caller may send
Selectors == {"", "api", "web", "constructor"}

\* manifests for the checks of steps 8 to 9: any schema marker, version, services
\* object, gpu request and deployments array, with pre-built images
CompileManifests ==
  { RawManifest(schema, v[1], v[2], gpu, targets, TRUE, FALSE, FALSE, FALSE) :
      schema \in BOOLEAN,
      v \in { <<"1.0", NoServices>>, <<"2.0", NoServices>>, <<"2.0", Services({"api"})>> },
      gpu \in BOOLEAN,
      targets \in TargetLists }

CompileRequests ==
  { [deploymentId |-> 1, signature |-> TRUE, serviceName |-> n, manifest |-> m] :
      n \in Selectors, m \in CompileManifests }

UpLog(r, msg) == [src |-> "upload", id |-> r, msg |-> msg]

Goto(r, pc) == upPc' = [upPc EXCEPT ![r] = pc]
Dep(r) == upReq[r].deploymentId
SetState(r, st) == deployState' = [deployState EXCEPT ![Dep(r)] = st]
Respond(r, body) == upResponse' = [upResponse EXCEPT ![r] = body]

\* a runCmd that logs the failure and returns instead of throwing
RunCmdSwallows(r, cmd, ok, next) ==
  /\ ran' = [ran EXCEPT ![r] = Append(@, cmd)]
  /\ upPc' = [upPc EXCEPT ![r] = next]
  /\ upError' = IF ok THEN upError ELSE [upError EXCEPT ![r] = cmd]

\* runCmd: the command runs to its end (execSync); a non-zero exit throws, and the
\* throw leaves the try block for the catch block
RunCmd(r, cmd, ok, next) ==
  /\ ran' = [ran EXCEPT ![r] = Append(@, cmd)]
  /\ IF ok
     THEN /\ Goto(r, next)
          /\ UNCHANGED upError
     ELSE /\ Goto(r, "catch")
          /\ upError' = [upError EXCEPT ![r] = cmd]

\* 1) the deploys row, 2) the projects row
UploadLookupFrom(r, requests) ==
  /\ upPc[r] = "idle"
  /\ (IF r = 1 THEN TRUE ELSE upPc[r - 1] # "idle")     \* requests are numbered as they arrive
  /\ \E q \in requests :
       /\ upReq' = [upReq EXCEPT ![r] = q]
       /\ clock' = [clock EXCEPT !.arrived[r] = clock.now]
       /\ IF ~deploys[q.deploymentId].exists
          THEN /\ Goto(r, "rejected")
               /\ Respond(r, "Invalid deploymentId")
               /\ UNCHANGED upProject
          ELSE /\ Goto(r, "verify")
               /\ upProject' = [upProject EXCEPT ![r] = ReadProject(balance, project)]
               /\ UNCHANGED upResponse
  /\ UNCHANGED <<sideVars, bodyVars, storeVars, clusterVars, payVars, billVars, ran, upError, deployState,
                 notified, advertised, chartVars, nodeVars, project, dns, domReq>>

UploadLookup(r) == UploadLookupFrom(r, Requests)

\* the same handler step, for the requests of the manifest checks
UploadLookupCompile(r) == UploadLookupFrom(r, CompileRequests)

\* a balance check that lets every tenant through
BalanceIgnored(b) == TRUE

\* upload.ts:85
BalanceSufficient(b) == b >= 1

\* 3) signature, 4) balance, 5) the artifact file and its path in the deploys row
UploadStore(r) ==
  /\ upPc[r] = "verify"
  /\ IF ~upReq[r].signature \/ ~BalanceSufficient(upProject[r].balance)
     THEN /\ Goto(r, "rejected")
          /\ Respond(r, IF ~upReq[r].signature THEN "Invalid signature"
                        ELSE "Project balance must be at least 1 satoshi")
          /\ UNCHANGED <<artifact, deploys, logs, deployState>>
     ELSE /\ artifact' = [artifact EXCEPT ![Dep(r)] = r]
          /\ deploys' = IF deploys[Dep(r)].exists
                        THEN [deploys EXCEPT ![Dep(r)].file_path = TRUE] ELSE deploys
          /\ logs' = logs \cup {UpLog(r, "File uploaded")}
          /\ SetState(r, "Uploading")
          /\ Goto(r, "extract")
          /\ UNCHANGED upResponse
  /\ UNCHANGED <<sideVars, bodyVars, balance, project_accounting, release, ingress, registry, payVars, billVars,
                 upReq, upProject, ran, upError, notified, advertised, chartVars, nodeVars, tenantVars>>

\* 6) 7) tar -xzf into /tmp/build_<deploymentId>
UploadExtract(r) ==
  /\ upPc[r] = "extract"
  /\ \E ok \in BOOLEAN : RunCmd(r, "tar", ok, "validate")
  /\ SetState(r, "Validating")
  /\ UNCHANGED <<sideVars, bodyVars, storeVars, clusterVars, payVars, billVars, upReq, upProject,
                 outVars, chartVars, nodeVars, tenantVars>>

\* utils.ts isV2Manifest
IsV2Manifest(m) == m.schemaVersion = "2.0" /\ m.services.present

\* rawManifest.services[serviceName] is truthy: an own key or an inherited one
HasService(m, serviceName) == serviceName \in m.services.names \cup ObjectPrototype

\* 8b) the manifest the rest of the handler works on: the document itself (v1),
\* or the one put together from the selected service and the document's
\* deployments; agent FALSE: manifest.agent is undefined
SelectService(m, serviceName) ==
  IF ~IsV2Manifest(m) \/ serviceName \in m.services.names
  THEN [agent |-> TRUE, gpu |-> m.gpu, targets |-> m.targets, agentImage |-> m.agentImage,
        frontend |-> m.frontend, frontendImage |-> m.frontendImage, storage |-> m.storage,
        databases |-> m.databases, env |-> m.env, agentType |-> m.agentType,
        dockerfile |-> m.dockerfile, buildContext |-> m.buildContext, ports |-> m.ports]
  ELSE [agent |-> FALSE, gpu |-> FALSE, targets |-> m.targets, agentImage |-> FALSE,
        frontend |-> FALSE, frontendImage |-> FALSE, storage |-> FALSE,
        databases |-> {}, env |-> NoEnv, agentType |-> "custom", dockerfile |-> FALSE,
        buildContext |-> AppContext, ports |-> NoPorts]

\* the manifest request r deploys
Eff(r) == SelectService(upReq[r].manifest, upReq[r].serviceName)

\* a node that takes gpu requests whatever its GPU_ENABLED says
GpuAlwaysSupported(gpu, e) == FALSE

\* 8c) manifest.resources?.gpu && process.env.GPU_ENABLED !== 'true'
GpuUnsupported(gpu, e) == gpu /\ ~e.GPU_ENABLED

\* 9) manifest.deployments?.find(d => d.provider === 'mandala' &&
\*    d.projectID === project.project_uuid): the first such entry, 0 if none
FindDeployConfig(targets) ==
  LET hits == {i \in 1..Len(targets) :
                 targets[i].provider = "mandala" /\ targets[i].projectID = ProjectUuid}
  IN IF hits = {} THEN 0 ELSE CHOOSE i \in hits : \A j \in hits : i <= j

\* the answers of the manifest checks
InvalidSchema   == "Invalid schema in agent-manifest.json"
SelectorNeeded  == "v2 manifest requires serviceName param"
GpuNotSupported == "This node does not support GPU workloads."
NoDeployConfig  == "No matching Mandala deployment config or projectID"
NetworkMismatch == "Network mismatch"

\* 8) 8b) 8c) 9) the checks in the order the handler makes them: "ok", or the
\* error of the first check that fails
Validate(m, serviceName, e) ==
  IF ~m.schema THEN InvalidSchema
  ELSE IF IsV2Manifest(m) /\ (serviceName = "" \/ ~HasService(m, serviceName))
  THEN SelectorNeeded
  ELSE LET eff == SelectService(m, serviceName)
           i   == FindDeployConfig(eff.targets) IN
       IF GpuUnsupported(eff.gpu, e) THEN GpuNotSupported
       ELSE IF i = 0 THEN NoDeployConfig
       ELSE IF eff.targets[i].network # "" /\ eff.targets[i].network # ProjectNetwork
       THEN NetworkMismatch
       ELSE "ok"

\* a handler that logs the failed check and goes on
ValidationIgnored(result) == TRUE

\* each failed check answers 400 and returns
ValidationPasses(result) == result = "ok"

\* 8) 8b) 8c) 9) the manifest checks; all but the gpu check log their error
UploadValidate(r) ==
  /\ upPc[r] = "validate"
  /\ LET result == Validate(upReq[r].manifest, upReq[r].serviceName, env) IN
     IF ValidationPasses(result)
     THEN /\ Goto(r, "agentBuild")
          /\ UNCHANGED <<logs, deployState, upResponse>>
     ELSE /\ Goto(r, "rejected")
          /\ Respond(r, result)
          /\ IF result = GpuNotSupported
             THEN UNCHANGED <<logs, deployState>>
             ELSE /\ logs' = logs \cup {UpLog(r, result)}
                  /\ SetState(r, "Failed")
  /\ UNCHANGED <<sideVars, bodyVars, balance, project_accounting, deploys, clusterVars, payVars, billVars,
                 upReq, upProject, ran, upError, notified, advertised, chartVars, nodeVars, tenantVars>>

\* upload.ts:182  process.env.DOCKER_REGISTRY || 'mandala-registry:5000'
RegistryHost == <<"mandala-registry:5000">>

\* an image reference whose second part is the helm release name
ImageRefOfRelease(component, deploymentId) ==
  [registry |-> RegistryHost, namespace |-> ReleaseName(ProjectUuid),
   component |-> component, deploymentId |-> deploymentId]

\* upload.ts:192,243  `${registryHost}/mandala-project-${project.project_uuid}/agent:${deploymentId}`
\* and the same with /frontend:
ImageRef(component, deploymentId) ==
  [registry |-> RegistryHost, namespace |-> <<"mandala-project-">> \o ProjectUuid,
   component |-> component, deploymentId |-> deploymentId]

\* buildah push of <registry>/mandala-project-<uuid>/<component>:<deploymentId>:
\* the tag now names the image this request built
Push(component, tag, r) ==
  registry' = {i \in registry : ~(i.component = component /\ i.tag = tag)}
                \cup {[component |-> component, tag |-> tag, by |-> r,
                       ref |-> ImageRef(component, tag)]}

\* what running a build step can come to: the build context is missing (400),
\* the build command fails (throws), or it succeeds
BuildOutcomes == {"missing", "fails", "ok"}

\* upload.ts:205-230  "Determine Dockerfile": the Dockerfile the build context
\* gets: the AGIdentity template when agent.type is 'agidentity', else the file
\* agent.dockerfile names, else the one generated from agent.runtime
DockerfileSource(m) ==
  IF m.agentType = "agidentity" THEN "agidentity template"
  ELSE IF m.dockerfile THEN "user dockerfile"
  ELSE "generated from runtime"

\* what the build step of manifest m can come to: BuildOutcomes, and the file
\* agent.dockerfile names may be missing from the artifact (400)
AgentBuildOutcomes(m) ==
  BuildOutcomes \cup (IF DockerfileSource(m) = "user dockerfile" THEN {"no dockerfile"} ELSE {})

\* upload.ts:196-197  buildDir = path.join(uploadDir, manifest.agent.buildContext || '.')
BuildDir(r) == PathJoin(UploadDir(Dep(r)), Eff(r).buildContext)

\* the deployment whose working directory /tmp/build_<d> the build directory of
\* request r lies in
BuildDirOwner(r) == (BuildDir(r)[2]).id

\* upload.ts:199  fs.existsSync(buildDir) can only hold once the working directory
\* the build directory lies in has been made and filled (steps 6 and 7)
Extracted(d) == \E q \in UpReqs : upPc[q] # "idle" /\ Dep(q) = d /\ ran[q] # <<>>

\* 10) agent image: a pre-built reference is used as it is, else the Dockerfile is
\* put into the build context and buildah build runs; reading manifest.agent.image
\* of a manifest without agent throws a TypeError
UploadAgentBuild(r) ==
  /\ upPc[r] = "agentBuild"
  /\ IF ~Eff(r).agent
     THEN /\ Goto(r, "catch")
          /\ upError' = [upError EXCEPT ![r] = "TypeError"]
          /\ UNCHANGED <<ran, logs, deployState, upResponse, dockerfile>>
     ELSE IF Eff(r).agentImage
     THEN /\ Goto(r, "frontendBuild")
          /\ logs' = logs \cup {UpLog(r, "Using pre-built agent image")}
          /\ UNCHANGED <<ran, upError, deployState, upResponse, dockerfile>>
     ELSE \E o \in {x \in AgentBuildOutcomes(Eff(r)) :
                       x # "missing" => Extracted(BuildDirOwner(r))} :
            IF o = "missing"
            THEN /\ Goto(r, "rejected")
                 /\ Respond(r, "Build context not found")
                 /\ logs' = logs \cup {UpLog(r, "Build context not found")}
                 /\ SetState(r, "Failed")
                 /\ UNCHANGED <<ran, upError, dockerfile>>
            ELSE IF o = "no dockerfile"
            THEN /\ Goto(r, "rejected")
                 /\ Respond(r, "Specified Dockerfile not found")
                 /\ logs' = logs \cup {UpLog(r, "Specified Dockerfile not found")}
                 /\ SetState(r, "Failed")
                 /\ UNCHANGED <<ran, upError, dockerfile>>
            ELSE /\ dockerfile' = [dockerfile EXCEPT ![BuildDirOwner(r)] = DockerfileSource(Eff(r))]
                 /\ RunCmd(r, "build agent", o = "ok", "agentPush")
                 /\ logs' = logs \cup {UpLog(r, "Building agent image")}
                 /\ SetState(r, "Building")
                 /\ UNCHANGED upResponse
  /\ UNCHANGED <<sideVars, bodyVars, balance, project_accounting, deploys, clusterVars, payVars, billVars,
                 upReq, upProject, notified, advertised, staging, topology, nodeVars, tenantVars>>

\* buildah push of the agent image
UploadAgentPush(r) ==
  /\ upPc[r] = "agentPush"
  /\ \E ok \in BOOLEAN :
       /\ RunCmd(r, "push agent", ok, "frontendBuild")
       /\ IF ok THEN Push("agent", Dep(r), r) ELSE UNCHANGED registry
  /\ logs' = logs \cup {UpLog(r, "Agent image built")}
  /\ UNCHANGED <<sideVars, bodyVars, balance, project_accounting, deploys, release, ingress, artifact, payVars,
                 billVars, upReq, upProject, deployState, outVars, chartVars, nodeVars, tenantVars>>

\* upload.ts:249  path.join(uploadDir, manifest.frontend.directory || 'frontend')
\* (the manifests here name no frontend.directory)
FrontendDir(r) == PathJoin(UploadDir(Dep(r)), <<Seg("frontend")>>)

\* upload.ts:295  path.join(uploadDir, 'helm')
HelmDir(r) == PathJoin(UploadDir(Dep(r)), <<Seg("helm")>>)

\* The paths request r has written so far: the artifact file (step 5), its working
\* directory (6, 7), the Dockerfile of the agent's build context (10), nginx.conf
\* and the Dockerfile of the frontend directory, and the chart directory (13).
Written(r) ==
  (IF UpLog(r, "File uploaded") \in logs THEN {FilePath(Dep(r))} ELSE {})
    \cup (IF ran[r] # <<>> THEN {UploadDir(Dep(r))} ELSE {})
    \cup (IF \E i \in 1..Len(ran[r]) : ran[r][i] = "build agent"
          THEN {Append(BuildDir(r), Seg("Dockerfile"))} ELSE {})
    \cup (IF \E i \in 1..Len(ran[r]) : ran[r][i] = "build frontend"
          THEN {Append(FrontendDir(r), Seg("nginx.conf")),
                Append(FrontendDir(r), Seg("Dockerfile"))} ELSE {})
    \cup (IF UpLog(r, "Helm chart generated") \in logs THEN {HelmDir(r)} ELSE {})

\* frontend image: none declared, a pre-built reference, or buildah build
UploadFrontendBuild(r) ==
  /\ upPc[r] = "frontendBuild"
  /\ IF ~Eff(r).frontend \/ Eff(r).frontendImage
     THEN /\ Goto(r, "chart")
          /\ UNCHANGED <<ran, upError, logs, deployState, upResponse>>
     ELSE \E o \in BuildOutcomes :
            IF o = "missing"
            THEN /\ Goto(r, "rejected")
                 /\ Respond(r, "Frontend directory not found")
                 /\ logs' = logs \cup {UpLog(r, "Frontend directory not found")}
                 /\ SetState(r, "Failed")
                 /\ UNCHANGED <<ran, upError>>
            ELSE /\ RunCmd(r, "build frontend", o = "ok", "frontendPush")
                 /\ logs' = logs \cup {UpLog(r, "Building frontend image")}
                 /\ SetState(r, "Building")
                 /\ UNCHANGED upResponse
  /\ UNCHANGED <<sideVars, bodyVars, balance, project_accounting, deploys, clusterVars, payVars, billVars,
                 upReq, upProject, notified, advertised, chartVars, nodeVars, tenantVars>>

\* buildah push of the frontend image
UploadFrontendPush(r) ==
  /\ upPc[r] = "frontendPush"
  /\ \E ok \in BOOLEAN :
       /\ RunCmd(r, "push frontend", ok, "chart")
       /\ IF ok THEN Push("frontend", Dep(r), r) ELSE UNCHANGED registry
  /\ logs' = logs \cup {UpLog(r, "Frontend image built")}
  /\ UNCHANGED <<sideVars, bodyVars, balance, project_accounting, deploys, release, ingress, artifact, payVars,
                 billVars, upReq, upProject, deployState, outVars, chartVars, nodeVars, tenantVars>>

\* a chart generation that empties the helm directory first
WriteChartClean(old, m, d, p) == Compile(m, d, p)

\* 13) ensureDirSync and writeFileSync under /tmp/build_<deploymentId>/helm: the
\* directory is kept, every file this run writes replaces the one of that name,
\* and a file this run does not write stays as an earlier run left it
WriteChart(old, m, d, p) ==
  [files |-> old.files \cup ChartFiles(m, p), values |-> ChartValues(m, d, p),
   templates |-> Templates(m, p),
   www |-> IF p.frontend_custom_domain # NoHost THEN WwwIngress(m, p) ELSE old.www]

\* 11) 12) 13) merged env, key funding, the helm chart written under
\* /tmp/build_<deploymentId>/helm: always with templates/ingress.yaml
UploadChart(r) ==
  /\ upPc[r] = "chart"
  /\ Goto(r, "helm")
  /\ staging' = [staging EXCEPT ![Dep(r)] = WriteChart(@, Eff(r), Dep(r), upProject[r])]
  /\ logs' = logs \cup {UpLog(r, "Helm chart generated")}
  /\ UNCHANGED <<sideVars, bodyVars, balance, project_accounting, deploys, clusterVars, payVars, billVars,
                 upReq, upProject, ran, upError, deployState, outVars, topology, dockerfile,
                 nodeVars, tenantVars>>

\* helm upgrade --install without --atomic
HelmNotAtomic == FALSE

\* upload.ts:932  the flags of helm upgrade --install
HelmAtomic == TRUE

\* deployment_uuid of deployment id d
DeploymentUuid(d) == [i \in 1..d |-> "f"]

\* a release named after the deployment instead of the tenant
HelmReleaseNameOfDeployment(r) == ReleaseName(DeploymentUuid(Dep(r)))

\* upload.ts:929-930  the namespace and the release name request r applies to
HelmNamespace(r)   == Namespace(ProjectUuid)
HelmReleaseName(r) == ReleaseName(ProjectUuid)

\* the resources after helm has applied `chart` as release `name` of `namespace`
\* (the namespace is created if it is missing): the chart's resources replace
\* those of the release's previous revision
HelmApply(namespace, name, chart) ==
  {t \in topology : ~(t.namespace = namespace /\ t.release = name)}
    \cup {Applied(namespace, name, chart)}

\* The release after helm upgrade --install of request r's chart.  Success: the
\* chart's resources, Ingress included, are the tenant's topology.  Failure with
\* --atomic: helm rolls the release back to its last deployed revision (a failed
\* first install is uninstalled); without it, what was applied so far stays.
HelmUpgrade(r, ok) ==
  IF ok THEN /\ release' = Revision(r)
             /\ ingress' = TRUE
             /\ topology' = HelmApply(HelmNamespace(r), HelmReleaseName(r), staging[Dep(r)])
  ELSE IF HelmAtomic
       THEN /\ release' = release
            /\ ingress' \in (IF release.installed THEN {ingress, TRUE} ELSE {FALSE})
            /\ topology' = topology
       ELSE /\ release' = [installed |-> TRUE, by |-> r, partial |-> TRUE]
            /\ ingress' \in BOOLEAN
            /\ topology' = HelmApply(HelmNamespace(r), HelmReleaseName(r), staging[Dep(r)])

\* 14) helm upgrade --install ... --atomic --create-namespace
UploadHelm(r) ==
  /\ upPc[r] = "helm"
  /\ \E ok \in BOOLEAN :
       /\ RunCmd(r, "helm upgrade", ok, "rollout")
       /\ HelmUpgrade(r, ok)
  /\ SetState(r, "Provisioning")
  /\ UNCHANGED <<sideVars, bodyVars, storeVars, registry, artifact, payVars, billVars, upReq, upProject,
                 outVars, staging, dockerfile, nodeVars, tenantVars>>

\* 15) kubectl rollout status of the main deployment
UploadRollout(r) ==
  /\ upPc[r] = "rollout"
  /\ \E ok \in BOOLEAN :
       /\ RunCmd(r, "rollout status", ok, "advertise")
       /\ IF ok THEN /\ SetState(r, "RolledOut")
                     /\ logs' = logs \cup {UpLog(r, "Helm release deployed"), UpLog(r, "rolled out")}
               ELSE /\ UNCHANGED deployState
                    /\ logs' = logs \cup {UpLog(r, "Helm release deployed")}
  /\ UNCHANGED <<sideVars, bodyVars, balance, project_accounting, deploys, clusterVars, payVars, billVars,
                 upReq, upProject, outVars, chartVars, nodeVars, tenantVars>>

\* registry.ts refreshAdvertisement: REGISTRY_ENABLED is 'false', no wallet yet,
\* the advertisement is published, or publishing throws
RefreshOutcomes == {"disabled", "no wallet", "published", "error"}

\* a refresh whose error reaches the handler
RefreshThrows(o) == IF o = "error" THEN "catch" ELSE "done"

\* registry.ts:159-169  refreshAdvertisement returns early or catches its error:
\* the handler goes on to its response whatever the outcome
AfterRefresh(o) == "done"

\* 15b) refreshAdvertisement, the URL log rows, res.json
UploadAdvertise(r) ==
  /\ upPc[r] = "advertise"
  /\ ran' = [ran EXCEPT ![r] = Append(@, "refresh advertisement")]
  /\ \E o \in RefreshOutcomes :
       /\ advertised' = [advertised EXCEPT ![r] = o]
       /\ Goto(r, AfterRefresh(o))
       /\ IF AfterRefresh(o) = "done"
          THEN /\ Respond(r, "Deployment completed successfully")
               /\ logs' = logs \cup {UpLog(r, "Agent URL")}
               /\ UNCHANGED upError
          ELSE /\ upError' = [upError EXCEPT ![r] = "refresh advertisement"]
               /\ UNCHANGED <<logs, upResponse>>
  /\ UNCHANGED <<sideVars, bodyVars, balance, project_accounting, deploys, clusterVars, payVars, billVars,
                 upReq, upProject, deployState, notified, chartVars, nodeVars, tenantVars>>

ErrorHandlingUpload == "Error handling upload"

\* the catch block: the error's log row (project_id and deploy_id set)
UploadCatch(r) ==
  /\ upPc[r] = "catch"
  /\ Goto(r, "notify")
  /\ logs' = logs \cup {UpLog(r, ErrorHandlingUpload)}
  /\ SetState(r, "Failed")
  /\ UNCHANGED <<sideVars, bodyVars, balance, project_accounting, deploys, clusterVars, payVars, billVars,
                 upReq, upProject, ran, upError, outVars, chartVars, nodeVars, tenantVars>>

\* an email error that leaves the catch block
NotifyEscalates(sent) == IF sent THEN "failed" ELSE "crashed"

\* upload.ts:972-1002  try { admins query; sendDeploymentFailureEmail }
\* catch (ignore) {}: the handler goes on to its 500 answer either way
AfterNotify(sent) == "failed"

\* the email to the tenant's admins, then res.status(500)
UploadNotify(r) ==
  /\ upPc[r] = "notify"
  /\ \E sent \in BOOLEAN :
       /\ notified' = [notified EXCEPT ![r] = IF sent THEN "sent" ELSE "error"]
       /\ Goto(r, AfterNotify(sent))
       /\ IF AfterNotify(sent) = "failed"
          THEN Respond(r, ErrorHandlingUpload) ELSE UNCHANGED upResponse
  /\ UNCHANGED <<sideVars, bodyVars, storeVars, clusterVars, payVars, billVars, upReq, upProject, ran, upError,
                 deployState, advertised, chartVars, nodeVars, tenantVars>>

\* runCmd calls execSync without a timeout option: a build whose Dockerfile runs
\* a command that never exits (RUN sleep infinity) never returns, and the handler
\* (with the whole process, execSync being synchronous) stays in that call
UploadHang(r) ==
  /\ \/ upPc[r] = "agentBuild" /\ Eff(r).agent /\ ~Eff(r).agentImage
     \/ upPc[r] = "frontendBuild" /\ Eff(r).frontend /\ ~Eff(r).frontendImage
  /\ ran' = [ran EXCEPT ![r] = Append(@, IF upPc[r] = "agentBuild" THEN "build agent"
                                         ELSE "build frontend")]
  /\ logs' = logs \cup {UpLog(r, IF upPc[r] = "agentBuild" THEN "Building agent image"
                                  ELSE "Building frontend image")}
  /\ SetState(r, "Building")
  /\ Goto(r, "blocked")
  /\ UNCHANGED <<sideVars, bodyVars, balance, project_accounting, deploys, clusterVars, payVars, billVars,
                 upReq, upProject, upError, outVars, chartVars, nodeVars, tenantVars>>

\* the steps of the handler after its lookups
UploadSteps(r) ==
  \/ UploadStore(r)
  \/ UploadExtract(r)
  \/ UploadValidate(r)
  \/ UploadAgentBuild(r)
  \/ UploadAgentPush(r)
  \/ UploadFrontendBuild(r)
  \/ UploadFrontendPush(r)
  \/ UploadChart(r)
  \/ UploadHelm(r)
  \/ UploadRollout(r)
  \/ UploadAdvertise(r)
  \/ UploadCatch(r)
  \/ UploadNotify(r)

Upload(r) ==
  \/ UploadLookup(r)
  \/ UploadSteps(r)

\* ------------------------------------------- POST /:projectId/delete
\* helm uninstall, kubectl delete namespace (two execSync calls, no await
\* between), each in a try whose catch logs "failed or not found. Continuing.":
\* removed TRUE when the commands removed the release and the namespace, FALSE
\* when they failed and the handler went on
DeleteCluster ==
  /\ deletePc = "idle"
  /\ deletePc' = "cluster"
  /\ \E removed \in BOOLEAN :
       IF removed \/ ~release.installed
       THEN /\ release' = NoRelease
            /\ ingress' = FALSE
            /\ topology' = {}
       ELSE UNCHANGED <<release, ingress, topology>>
  /\ UNCHANGED <<sideVars, bodyVars, storeVars, registry, artifact, payVars, billVars, upVars, outVars,
                 staging, dockerfile, env, tenantVars>>

\* the admins' email, then the tenant's rows of project_accounting, deploys,
\* project_admins, logs and projects are deleted
DeleteRows ==
  /\ deletePc = "cluster"
  /\ deletePc' = "done"
  /\ project_accounting' = <<>>
  /\ deploys' = [d \in DeployIds |-> [exists |-> FALSE, file_path |-> FALSE]]
  /\ logs' = {}
  /\ UNCHANGED <<sideVars, bodyVars, balance, clusterVars, payVars, billVars, upVars, outVars, chartVars, env, tenantVars>>

Delete ==
  \/ DeleteCluster
  \/ DeleteRows

\* ------------------------------- POST /:projectId/domains/frontend, /agent
Roles   == {"frontend", "agent"}

\* the domains a caller may ask for; "localhost" fails the format check
Domains == {<<"example.com">>, <<"localhost">>}

\* init-cluster.ts:1058  the format a domain must have
ValidDomain(domain) == domain # <<"localhost">>

\* a token that leaves the role out
ExpectedRecordAnyRole(uuid, role) == <<"mandala-project-verification=", uuid, ":", "frontend">>

\* init-cluster.ts:1062  `mandala-project-verification=${project.project_uuid}:${domainType}`
ExpectedRecord(uuid, role) == <<"mandala-project-verification=", uuid, ":", role>>

\* init-cluster.ts:1063  `mandala_project.${domain}`
VerificationHost(domain) == <<"mandala_project">> \o domain

\* the TXT records an owner of example.com may publish: the token of this tenant
\* for either role, the token of another tenant, a token at the domain itself
TxtRecords ==
  { [host |-> VerificationHost(<<"example.com">>), txt |-> ExpectedRecord(ProjectUuid, "frontend")],
    [host |-> VerificationHost(<<"example.com">>), txt |-> ExpectedRecord(ProjectUuid, "agent")],
    [host |-> VerificationHost(<<"example.com">>), txt |-> ExpectedRecord(OtherUuid, "agent")],
    [host |-> <<"example.com">>,                   txt |-> ExpectedRecord(ProjectUuid, "agent")] }

\* the owner of a domain publishes a TXT record
PublishTxt ==
  /\ \E rec \in TxtRecords : rec \notin dns /\ dns' = dns \cup {rec}
  /\ UNCHANGED <<sideVars, bodyVars, storeVars, clusterVars, payVars, billVars, upVars, outVars, chartVars,
                 nodeVars, project, domReq, clock>>

\* dns.resolveTxt(host): the TXT records of host
ResolveTxt(host) == {rec.txt : rec \in {x \in dns : x.host = host}}

\* init-cluster.ts:1067  txtRecords.some(recordSet => recordSet.includes(expectedRecord))
Found(txtRecords, expectedRecord) == expectedRecord \in txtRecords

DnsVerificationFailed == "DNS verification failed"
FailedToVerifyDomain  == "Failed to verify domain"
InvalidDomainFormat   == "Invalid domain format"
DomainVerified        == "custom domain verified and set"

\* the answers that come with `instructions`
WithInstructions == {DnsVerificationFailed, FailedToVerifyDomain}

\* a handler that records the domain whatever the lookup found
CustomDomainAlways(found, old, domain) == domain

\* init-cluster.ts:1067-1076  the column after the lookup: the domain when the
\* token was found, else what it was
CustomDomainAfter(found, old, domain) == IF found THEN domain ELSE old

\* init-cluster.ts:1073  updateField
SetDomain(row, role, domain) ==
  IF role = "frontend" THEN [row EXCEPT !.frontend_custom_domain = domain]
  ELSE [row EXCEPT !.backend_custom_domain = domain]

DomainOf(row, role) ==
  IF role = "frontend" THEN row.frontend_custom_domain ELSE row.backend_custom_domain

\* the request arrives: the format check, then dns.resolveTxt is awaited
CustomDomainRequest(k) ==
  /\ deletePc # "done"                                  \* 404 once the projects row is gone
  /\ domReq[k].pc = "idle"
  /\ (IF k = 1 THEN TRUE ELSE domReq[k - 1].pc # "idle")
  /\ \E role \in Roles, domain \in Domains :
       domReq' = [domReq EXCEPT ![k] =
         IF ValidDomain(domain)
         THEN [pc |-> "lookup", role |-> role, domain |-> domain, lookup |-> "", response |-> ""]
         ELSE [pc |-> "done", role |-> role, domain |-> domain, lookup |-> "",
               response |-> InvalidDomainFormat]]
  /\ UNCHANGED <<sideVars, bodyVars, storeVars, clusterVars, payVars, billVars, upVars, outVars, chartVars,
                 nodeVars, project, dns, clock>>

\* the lookup throws (400 from the catch block), or returns the records: without
\* the token 400, with it the projects row is updated
CustomDomainLookup(k) ==
  /\ domReq[k].pc = "lookup"
  /\ \E resolved \in BOOLEAN :
       LET q        == domReq[k]
           expected == ExpectedRecord(ProjectUuid, q.role)
           found    == resolved /\ Found(ResolveTxt(VerificationHost(q.domain)), expected)
           lookup   == IF ~resolved THEN "error" ELSE IF found THEN "found" ELSE "not found"
       IN /\ project' = SetDomain(project, q.role,
                                  CustomDomainAfter(found, DomainOf(project, q.role), q.domain))
          /\ domReq' = [domReq EXCEPT ![k] =
                [q EXCEPT !.lookup = lookup,
                          !.pc = IF found THEN "notify" ELSE "done",
                          !.response = IF ~resolved THEN FailedToVerifyDomain
                                       ELSE IF found THEN "" ELSE DnsVerificationFailed]]
  /\ UNCHANGED <<sideVars, bodyVars, storeVars, clusterVars, payVars, billVars, upVars, outVars, chartVars,
                 nodeVars, dns, clock>>

\* the log row, the admins query and the email: one of them may reject, which the
\* same catch block answers
CustomDomainNotify(k) ==
  /\ domReq[k].pc = "notify"
  /\ \E ok \in BOOLEAN :
       /\ domReq' = [domReq EXCEPT ![k] =
             [@ EXCEPT !.pc = "done",
                       !.response = IF ok THEN DomainVerified ELSE FailedToVerifyDomain]]
       /\ logs' = IF ok THEN logs \cup {[src |-> "domain", id |-> k, msg |-> "custom domain set"]}
                  ELSE logs
  /\ UNCHANGED <<sideVars, bodyVars, balance, project_accounting, deploys, clusterVars, payVars, billVars, upVars,
                 outVars, chartVars, nodeVars, project, dns, clock>>

CustomDomain(k) ==
  \/ CustomDomainRequest(k)
  \/ CustomDomainLookup(k)
  \/ CustomDomainNotify(k)

\* ------------------------------------------------------------ time
\* time passes
Tick ==
  /\ clock.now < MaxTime
  /\ clock' = [clock EXCEPT !.now = @ + 1]
  /\ UNCHANGED <<sideVars, bodyVars, storeVars, clusterVars, payVars, billVars, upVars, outVars, chartVars,
                 nodeVars, project, dns, domReq>>

\* ------------------------------------------------ PushDrop locking scripts
\* the bytes
Bytes == 0..255

\* part_000:85  function minimalPush (data: number[]): number[]
\* the variant that pushes every non-empty byte string directly
minimalPushDirect(data) ==
  LET n == Len(data) IN
  IF n = 0 THEN <<0>>
  ELSE IF n <= 75 THEN <<n>> \o data
  ELSE IF n <= 255 THEN <<76, n>> \o data
  ELSE IF n <= 65535 THEN <<77, n % 256, (n \div 256) % 256>> \o data
  ELSE <<78, n % 256, (n \div 256) % 256, (n \div 65536) % 256, (n \div 16777216) % 256>> \o data

\* part_000:85-106  n & 0xff is n % 256, (n >> 8) & 0xff is (n \div 256) % 256
minimalPush(data) ==
  LET n == Len(data) IN
  IF n = 0 THEN <<0>>
  ELSE IF n = 1 /\ data[1] = 0 THEN <<0>>
  ELSE IF n = 1 /\ data[1] >= 1 /\ data[1] <= 16 THEN <<80 + data[1]>>
  ELSE IF n = 1 /\ data[1] = 129 THEN <<79>>
  ELSE IF n <= 75 THEN <<n>> \o data
  ELSE IF n <= 255 THEN <<76, n>> \o data
  ELSE IF n <= 65535 THEN <<77, n % 256, (n \div 256) % 256>> \o data
  ELSE <<78, n % 256, (n \div 256) % 256, (n \div 65536) % 256, (n \div 16777216) % 256>> \o data

\* part_000:250,258,266  Array.from({ length }, (_, i) => i) and new Array(length).fill(v)
Counting(length) == [i \in 1..length |-> (i - 1) % 256]
Filled(length, v) == [i \in 1..length |-> v]

\* the lengths at which the encoding changes, and one past the largest
PushLengths == {0, 2, 75, 76, 255, 256, MaxPushLen - 1, MaxPushLen}

\* every single byte, and byte strings of the lengths above
Fields ==
  { <<v>> : v \in Bytes }
    \cup { Counting(n) : n \in PushLengths }
    \cup { Filled(n, v) : n \in PushLengths, v \in {0, 1, 129, 171} }

\* part_000:150  script.push(...minimalPush(field))
PushField ==
  /\ pushed = <<>>
  /\ pushed' = minimalPush(field)
  /\ UNCHANGED <<storeVars, clusterVars, payVars, billVars, upVars, outVars, chartVars,
                 nodeVars, tenantVars, bodyVars, field, adminVars, teeVars>>

\* ------------------------------------------------------ project admins
\* the registered users (rows of the users table)
Users == {"alice", "bob"}

\* the other variables, for the actions of the admin requests
NotAdminVars ==
  <<storeVars, clusterVars, payVars, billVars, upVars, outVars, chartVars, nodeVars, tenantVars,
    bodyVars, pushVars, teeVars>>

\* requireProjectAdmin (init-cluster.ts:361-371): the caller has a row in
\* project_admins; resolveUser finds the target user
AdminRequest(k) ==
  /\ adminReq[k].pc = "idle"
  /\ (IF k = 1 THEN TRUE ELSE adminReq[k - 1].pc # "idle")
  /\ \E caller \in project_admins, op \in {"addAdmin", "removeAdmin"}, target \in Users :
       adminReq' = [adminReq EXCEPT ![k] = [@ EXCEPT !.pc = "resolved", !.op = op, !.target = target]]
  /\ UNCHANGED <<NotAdminVars, project_admins>>

\* init-cluster.ts:541  existing = await db('project_admins').where({...}).first()
AddAdminRead(k) ==
  /\ adminReq[k].pc = "resolved" /\ adminReq[k].op = "addAdmin"
  /\ adminReq' = [adminReq EXCEPT ![k] =
       IF adminReq[k].target \in project_admins
       THEN [@ EXCEPT !.pc = "done", !.response = "User is already an admin"]
       ELSE [@ EXCEPT !.pc = "insert"]]
  /\ UNCHANGED <<NotAdminVars, project_admins>>

\* init-cluster.ts:543  await db('project_admins').insert(...), then the log row,
\* the emails and the answer
AddAdminInsert(k) ==
  /\ adminReq[k].pc = "insert"
  /\ project_admins' = project_admins \cup {adminReq[k].target}
  /\ adminReq' = [adminReq EXCEPT ![k] = [@ EXCEPT !.pc = "done", !.response = "Admin added"]]
  /\ UNCHANGED NotAdminVars

\* init-cluster.ts:600-608  admins = await db('project_admins').where({ project_id }),
\* then the two tests on the rows that query returned
RemoveAdminRead(k) ==
  /\ adminReq[k].pc = "resolved" /\ adminReq[k].op = "removeAdmin"
  /\ adminReq' = [adminReq EXCEPT ![k] =
       IF project_admins = {adminReq[k].target}
       THEN [@ EXCEPT !.pc = "rejected", !.admins = project_admins,
                      !.response = "Cannot remove last admin"]
       ELSE IF adminReq[k].target \notin project_admins
       THEN [@ EXCEPT !.pc = "rejected", !.admins = project_admins,
                      !.response = "User not an admin"]
       ELSE [@ EXCEPT !.pc = "delete", !.admins = project_admins]]
  /\ UNCHANGED <<NotAdminVars, project_admins>>

\* init-cluster.ts:610  await db('project_admins').where({ project_id, identity_key }).del()
RemoveAdminDelete(k) ==
  /\ adminReq[k].pc = "delete"
  /\ project_admins' = project_admins \ {adminReq[k].target}
  /\ adminReq' = [adminReq EXCEPT ![k] = [@ EXCEPT !.pc = "done", !.response = "Admin removed"]]
  /\ UNCHANGED NotAdminVars

Admin(k) ==
  \/ AdminRequest(k)
  \/ AddAdminRead(k)
  \/ AddAdminInsert(k)
  \/ RemoveAdminRead(k)
  \/ RemoveAdminDelete(k)

\* ------------------------------------------------------ TEE attestations
\* the attestation txids and node identity keys a caller may send
Txids    == {"tx1", "tx2"}
NodeKeys == {"node1", "node2"}

NotTeeVars ==
  <<storeVars, clusterVars, payVars, billVars, upVars, outVars, chartVars, nodeVars, tenantVars,
    bodyVars, pushVars, adminVars>>

Attestation(txid, key, current) ==
  [attestation_txid |-> txid, node_identity_key |-> key, is_current |-> current]

\* tee.ts:228-237  the body carries every required field
RegisterRequest(k) ==
  /\ teeReq[k].pc = "idle"
  /\ (IF k = 1 THEN TRUE ELSE teeReq[k - 1].pc # "idle")
  /\ \E txid \in Txids, key \in NodeKeys :
       teeReq' = [teeReq EXCEPT ![k] =
                    [@ EXCEPT !.pc = "update", !.attestationTxid = txid, !.nodeIdentityKey = key]]
  /\ UNCHANGED <<NotTeeVars, tee_attestations>>

\* tee.ts:241-243  update({ is_current: false }) of the key's current rows
RegisterMarkPrevious(k) ==
  /\ teeReq[k].pc = "update"
  /\ tee_attestations' =
       { IF a.node_identity_key = teeReq[k].nodeIdentityKey
         THEN [a EXCEPT !.is_current = FALSE] ELSE a : a \in tee_attestations }
  /\ teeReq' = [teeReq EXCEPT ![k] = [@ EXCEPT !.pc = "insert"]]
  /\ UNCHANGED NotTeeVars

\* tee.ts:246-264  the insert with is_current true; attestation_txid is unique
\* (migration:6), so the insert of a txid the table holds rejects and the catch
\* block answers 500
RegisterInsert(k) ==
  /\ teeReq[k].pc = "insert"
  /\ IF \E a \in tee_attestations : a.attestation_txid = teeReq[k].attestationTxid
     THEN /\ teeReq' = [teeReq EXCEPT ![k] =
                          [@ EXCEPT !.pc = "failed", !.response = "Failed to register attestation"]]
          /\ UNCHANGED tee_attestations
     ELSE /\ tee_attestations' = tee_attestations
               \cup {Attestation(teeReq[k].attestationTxid, teeReq[k].nodeIdentityKey, TRUE)}
          /\ teeReq' = [teeReq EXCEPT ![k] = [@ EXCEPT !.pc = "done", !.response = "registered"]]
  /\ UNCHANGED NotTeeVars

Register(k) ==
  \/ RegisterRequest(k)
  \/ RegisterMarkPrevious(k)
  \/ RegisterInsert(k)

\* ------------------------------------------------------------ specifications
\* Payments and billing debits of one tenant, in any interleaving.
NextBilling ==
  \/ \E r \in PayReqs : Pay(r)
  \/ BillProjects

SpecBilling == Init /\ [][NextBilling]_vars

\* Deployment records and upload pipelines of one tenant, in any interleaving.
NextPipeline ==
  \/ \E d \in DeployIds : CreateDeploy(d)
  \/ \E r \in UpReqs : Upload(r)

SpecPipeline == Init /\ [][NextPipeline]_vars

\* One upload pipeline of a tenant and the tenant's deletion.
NextDeletion ==
  \/ CreateDeploy(1)
  \/ Upload(1)
  \/ Delete

SpecDeletion == Init /\ [][NextDeletion]_vars

\* One upload pipeline and one payment of a tenant, with the billing cron.
Next ==
  \/ Pay(1)
  \/ BillProjects
  \/ CreateDeploy(1)
  \/ Upload(1)

Spec == Init /\ [][Next]_vars

\* One upload with any manifest, on a node with or without GPU support.
InitCompile == \E gpu \in BOOLEAN : InitOn(gpu)

NextCompile ==
  \/ CreateDeploy(1)
  \/ UploadLookupCompile(1)
  \/ UploadLookup(1)
  \/ UploadSteps(1)

SpecCompile == InitCompile /\ [][NextCompile]_vars

\* One upload pipeline whose commands may never exit; the handler takes its next
\* step whenever it has one (the event loop runs every ready continuation).
NextLive ==
  \/ CreateDeploy(1)
  \/ UploadLookup(1)
  \/ UploadSteps(1)
  \/ UploadHang(1)

SpecLive == Init /\ [][NextLive]_vars /\ WF_vars(UploadSteps(1))

\* the env a manifest may declare, and the agent_config a tenant may have set
\* (POST /:projectId/settings/update takes any keys)
ManifestEnvs == {NoEnv, EnvObject("debug", Undefined), EnvObject("debug", "regtest")}
Configs      == {NoEnv, EnvObject("info", Undefined), EnvObject(Undefined, "testnet")}

\* manifests of every agent type, with or without an image reference and an
\* agent.dockerfile, and manifests of a pre-built image with an env
TenantManifests ==
  { WithAgent(Manifest(TRUE, image, FALSE, FALSE), type, file) :
      image \in BOOLEAN, type \in {"custom", "openclaw", "agidentity"}, file \in BOOLEAN }
    \cup { WithEnv(Manifest(TRUE, TRUE, FALSE, FALSE), e) : e \in ManifestEnvs }

TenantRequests ==
  { [deploymentId |-> 1, signature |-> TRUE, serviceName |-> "", manifest |-> m] :
      m \in TenantManifests }

UploadLookupTenant(r) == UploadLookupFrom(r, TenantRequests)

\* a tenant with any agent_config, requiring funding or not
InitTenant ==
  \E config \in Configs, funding \in BOOLEAN :
    InitProject(FALSE, ProjectRow(NoHost, NoHost, config, funding))

\* One upload of a tenant with any configuration.
NextTenant ==
  \/ CreateDeploy(1)
  \/ UploadLookupTenant(1)
  \/ UploadLookup(1)
  \/ UploadSteps(1)

SpecTenant == InitTenant /\ [][NextTenant]_vars

\* One upload pipeline of a tenant, and the passing of time.
NextExpiry ==
  \/ Tick
  \/ CreateDeploy(1)
  \/ Upload(1)

SpecExpiry == Init /\ [][NextExpiry]_vars

\* uploads of pre-built images, with and without a frontend, to deployment 1
HostRequests ==
  { [deploymentId |-> 1, signature |-> TRUE, serviceName |-> "", manifest |-> m] :
      m \in {Manifest(TRUE, TRUE, TRUE, TRUE), Manifest(TRUE, TRUE, FALSE, FALSE)} }

UploadLookupHosts(r) == UploadLookupFrom(r, HostRequests)

\* the steps of the handler a manifest of pre-built images goes through
UploadPrebuiltSteps(r) ==
  \/ UploadStore(r)
  \/ UploadExtract(r)
  \/ UploadValidate(r)
  \/ UploadAgentBuild(r)
  \/ UploadFrontendBuild(r)
  \/ UploadChart(r)
  \/ UploadHelm(r)
  \/ UploadRollout(r)
  \/ UploadAdvertise(r)
  \/ UploadCatch(r)
  \/ UploadNotify(r)

\* manifests whose agent is built from the artifact, in the artifact's own build
\* context or in the one a deployment id names, and one with a frontend to build
StagingManifests ==
  { WithBuildContext(Manifest(TRUE, FALSE, FALSE, FALSE), c) :
      c \in {AppContext} \cup {ContextOf(d) : d \in DeployIds} }
    \cup {Manifest(TRUE, FALSE, TRUE, FALSE)}

StagingRequests ==
  { [deploymentId |-> d, signature |-> TRUE, serviceName |-> "", manifest |-> m] :
      d \in DeployIds, m \in StagingManifests }

UploadLookupStaging(r) == UploadLookupFrom(r, StagingRequests)

\* a tenant that has paid and has a release rolled out
InitStaging == InitOn(FALSE) /\ balance = 1

\* Two upload pipelines of a funded tenant, whose manifests name their build context.
NextStaging ==
  \/ \E d \in DeployIds : CreateDeploy(d)
  \/ \E r \in UpReqs : UploadLookupStaging(r) \/ UploadSteps(r)

SpecStaging == InitStaging /\ [][NextStaging]_vars

\* the bodies of any caller: a number of either sign or zero, a numeric string,
\* or no amount at all
AnyBodies ==
  {Body("number", a) : a \in {0 - 1, 0, 1}} \cup {Body("string", 5), Body("undefined", 0)}

PayRequireProjectAny(r) == PayRequireProjectFrom(r, AnyBodies)

\* The payments of one tenant, with any body.
NextPay == \E r \in PayReqs : PayRequireProjectAny(r) \/ PayHandler(r)

SpecPay == Init /\ [][NextPay]_vars

\* The addAdmin and removeAdmin requests of one tenant, in any interleaving.
NextAdmins == \E k \in AdminReqs : Admin(k)

SpecAdmins == Init /\ [][NextAdmins]_vars

\* The attestation registrations of the node, in any interleaving.
NextTee == \E k \in TeeReqs : Register(k)

SpecTee == Init /\ [][NextTee]_vars

\* the ports a manifest may declare
PortLists == {NoPorts, Ports(<<>>), Ports(<<3000>>), Ports(<<9090, 8080>>)}

\* manifests of pre-built images with any ports, with and without a frontend, of
\* either agent type
PortManifests ==
  { WithPorts(WithAgent(Manifest(TRUE, TRUE, frontend, frontend), type, FALSE), ports) :
      frontend \in BOOLEAN, type \in {"custom", "agidentity"}, ports \in PortLists }

PortRequests ==
  { [deploymentId |-> 1, signature |-> TRUE, serviceName |-> "", manifest |-> m] :
      m \in PortManifests }

UploadLookupPorts(r) == UploadLookupFrom(r, PortRequests)

\* a tenant with or without verified custom domains
InitPorts ==
  \E frontendDomain \in {NoHost, <<"example.com">>}, backendDomain \in {NoHost, <<"api.example.com">>} :
    InitProject(FALSE, ProjectRow(frontendDomain, backendDomain, NoEnv, FALSE))

\* One upload of a manifest that declares its ports.
NextPorts ==
  \/ CreateDeploy(1)
  \/ UploadLookupPorts(1)
  \/ UploadPrebuiltSteps(1)

SpecPorts == InitPorts /\ [][NextPorts]_vars

\* One custom-domain request and one upload of a tenant, and the DNS.
NextHosts ==
  \/ PublishTxt
  \/ CustomDomain(1)
  \/ CreateDeploy(1)
  \/ UploadLookupHosts(1)
  \/ UploadPrebuiltSteps(1)

SpecHosts == Init /\ [][NextHosts]_vars

\* The custom-domain requests of a tenant, and the DNS.
NextDomains ==
  \/ PublishTxt
  \/ \E k \in DomReqs : CustomDomain(k)

SpecDomains == Init /\ [][NextDomains]_vars

\* The encoding of one field of a locking script, for any field.
InitPush ==
  InitStore(FALSE, NewProject) /\ InitAdmins /\ InitTee /\ field \in Fields /\ pushed = <<>>

NextPush == PushField

SpecPush == InitPush /\ [][NextPush]_vars

\* ================================================================== claims

RECURSIVE SumAmounts(_)
SumAmounts(S) ==
  IF S = {} THEN 0
  ELSE LET r == CHOOSE x \in S : TRUE IN payAmount[r] + SumAmounts(S \ {r})

\* the pay requests that answered "Paid ..."
Paid == {r \in PayReqs : payPc[r] = "done"}

\* every pay request has either not arrived, or has answered 200 or 400
PaymentsCompleted == \A r \in PayReqs : payPc[r] \in {"idle", "done", "rejected"}

\* no pay request is between its first and its last database call
PaymentsQuiescent == \A r \in PayReqs : payPc[r] \in {"idle", "done", "rejected", "failed"}

\* C1: once all credits and debits have completed, the balance is the starting
\* balance plus the sum of the credits minus the sum of the debits (no lost update).
C1_NoLostUpdate ==
  PaymentsCompleted => balance = start.balance + SumAmounts(Paid) - billed

\* C2: every balance change has its ledger row: the ledger's rows add up to the
\* stored balance and the last row's balance_after is the stored balance, also
\* after a database call of a payment failed and after payments interleaved.
C2_LedgerPaired ==
  PaymentsQuiescent =>
    /\ balance = LedgerSum(project_accounting)
    /\ project_accounting # <<>> =>
         project_accounting[Len(project_accounting)].balance_after = balance

\* every request has run to its end, no database call of a payment failed and
\* every enableIngress call succeeded
Settled ==
  /\ PaymentsCompleted
  /\ \A r \in PayReqs : PayLog(r, "Unable to re-enable ingress") \notin logs
  /\ \A r \in UpReqs : upPc[r] \in {"idle", "done", "rejected", "failed"}

\* C3: a tenant with balance < 0 has no Ingress; a tenant with balance >= 0 and a
\* rolled-out release has its Ingress (stated for the states in which no request
\* is in the middle of its handler).
C3_GateInvariant ==
  Settled =>
    /\ balance < 0 => ~ingress
    /\ (balance >= 0 /\ release.installed) => ingress

\* C4: a payment of a > 0 on a tenant with balance b, run on its own, leaves the
\* balance at b + a, appends exactly the one ledger row (credit, a, b + a), and
\* calls enableIngress exactly once if b < 0 and b + a >= 0, and not at all otherwise.
C4_PaymentEffect ==
  \A r \in PayReqs :
    (payPc[r] = "done" /\ billed = 0 /\ \A q \in PayReqs \ {r} : payPc[q] = "idle") =>
      LET b == start.balance
          a == payAmount[r] IN
      /\ a > 0
      /\ balance = b + a
      /\ project_accounting =
           Append(start.ledger, [type |-> "credit", amount_sats |-> a, balance_after |-> b + a])
      /\ enableIngressCalls[r] = IF b < 0 /\ b + a >= 0 THEN 1 ELSE 0

\* C4 witness: balance -1, credit 5: balance 4, one credit row of 5, one re-enable
C4_Witness ==
  /\ payPc[1] = "done" /\ billed = 0 /\ \A q \in PayReqs \ {1} : payPc[q] = "idle"
  /\ start.balance = 0 - 1 /\ payAmount[1] = 5 /\ balance = 4
  /\ Len(project_accounting) = Len(start.ledger) + 1
  /\ enableIngressCalls[1] = 1

\* a step of a pay request
PayStep == \E r \in PayReqs : payPc'[r] # payPc[r]

\* C5: a payment calls enableIngress if and only if the balance it started from
\* was < 0 and the balance it wrote is >= 0; and no step of a payment builds or
\* pushes an image, applies a release or changes the tenant's workloads: the only
\* cluster change a payment makes is to put the Ingress back.
C5_ReenableOnlyIngress ==
  /\ [](\A r \in PayReqs :
          /\ payPc[r] = "done" =>
               (enableIngressCalls[r] = 1 <=>
                  (payProject[r] < 0 /\ payProject[r] + payAmount[r] >= 0))
          /\ enableIngressCalls[r] \in {0, 1}
          /\ payPc[r] # "done" => enableIngressCalls[r] = 0)
  /\ [][PayStep =>
          /\ UNCHANGED <<release, registry, artifact, ran, deploys, deployState>>
          /\ ingress' # ingress =>
               /\ ingress'
               /\ \E r \in PayReqs : enableIngressCalls'[r] = enableIngressCalls[r] + 1]_vars

\* C5 witness: a payment crossed to >= 0 and put the Ingress back while a
\* pipeline of the tenant was between two of its stages
C5_Witness ==
  /\ payPc[1] = "done" /\ enableIngressCalls[1] = 1 /\ ingress
  /\ payProject[1] < 0 /\ balance >= 0
  /\ upPc[1] = "helm" /\ registry # {}
  /\ release = Revision(0)

\* the upload requests between their helm upgrade --install and the end of
\* their kubectl rollout status
InApply == {r \in UpReqs : upPc[r] = "rollout"}

\* C6: at most one pipeline of the tenant is inside the apply/rollout-wait section.
C6_ApplyMutex == Cardinality(InApply) <= 1

Terminal == {"RolledOut", "Failed"}

\* C7: RolledOut and Failed are terminal: once a Deployment is in one of them, no
\* upload request moves it to any other state again.
C7_TerminalStates ==
  [][\A d \in DeployIds : deployState[d] \in Terminal => deployState'[d] = deployState[d]]_vars

Succeeded(r, cmd) ==
  /\ \E i \in 1..Len(ran[r]) : ran[r][i] = cmd
  /\ upError[r] # cmd

\* an agent image tagged with deployment id d has been built
Built(d) == \E r \in UpReqs : upPc[r] # "idle" /\ Dep(r) = d /\ Succeeded(r, "build agent")

\* C8: once the agent image of a deployment id is built, the Deployment's artifact
\* file is never written again, and an image in the registry is never replaced
\* under its tag.
C8_DeploymentImmutable ==
  [][/\ \A d \in DeployIds : Built(d) => artifact'[d] = artifact[d]
     /\ \A i \in registry : i \in registry']_vars

\* C9: a failed install-or-upgrade leaves the tenant's release at the revision it
\* had before, and the release is never a partially applied one.
C9_ApplyAtomic ==
  /\ [](~release.partial)
  /\ [][\A r \in UpReqs :
          (upPc[r] = "helm" /\ upPc'[r] = "catch") => release' = release]_vars

\* C9 witness: an upgrade failed on top of the revision the tenant was running
C9_Witness ==
  /\ upPc[1] = "failed" /\ upError[1] = "helm upgrade"
  /\ release = Revision(0)

Last(seq) == seq[Len(seq)]

\* the stages of a pipeline, in the order the handler runs them
StageOrder ==
  <<"tar", "build agent", "push agent", "build frontend", "push frontend",
    "helm upgrade", "rollout status", "refresh advertisement">>

StageIndex(stage) == CHOOSE i \in 1..Len(StageOrder) : StageOrder[i] = stage

\* C10: a failed stage is the last stage its pipeline runs (every stage it ran is
\* in pipeline order, the failed one last), and the steps of an aborted pipeline
\* remove no image from the registry.
C10_FailureAborts ==
  /\ [](\A r \in UpReqs :
          /\ \A i, j \in 1..Len(ran[r]) : i < j => StageIndex(ran[r][i]) < StageIndex(ran[r][j])
          /\ upError[r] # "" => Last(ran[r]) = upError[r])
  /\ [][\A r \in UpReqs :
          (upPc'[r] \in {"catch", "failed"} /\ upPc'[r] # upPc[r]) =>
             \A i \in registry : i \in registry']_vars

\* C10 witness: a pipeline pushed its agent image, then its apply failed
C10_Witness ==
  /\ upPc[1] = "failed" /\ upError[1] = "helm upgrade"
  /\ \E i \in registry : i.by = 1 /\ i.component = "agent"
  /\ Last(ran[1]) = "helm upgrade"

\* ------------------------------------------------ manifest checks (C11-C14)
ValidationErrors ==
  {InvalidSchema, SelectorNeeded, GpuNotSupported, NoDeployConfig, NetworkMismatch}

\* request r has extracted its artifact and made its manifest checks
Checked(r) == Len(ran[r]) >= 1 /\ upError[r] # "tar" /\ upPc[r] # "validate"

\* no build, push or apply command was started by request r, and nothing in the
\* registry or the cluster comes from it
NothingBuilt(r) ==
  /\ ran[r] = <<"tar">>
  /\ \A i \in registry : i.by # r
  /\ release.by # r

\* C11: a pipeline whose manifest fails a check (schema marker, service selector,
\* unsupported resource, deployment target, network) ends with that error at the
\* check: it has answered with the error, and has started no build, push or apply.
C11_ValidationBeforeBuild ==
  \A r \in UpReqs :
    LET result == Validate(upReq[r].manifest, upReq[r].serviceName, env) IN
    (Checked(r) /\ result # "ok") =>
      /\ upPc[r] = "rejected"
      /\ upResponse[r] = result
      /\ result \in ValidationErrors
      /\ NothingBuilt(r)

\* C11 witness: a manifest naming the tenant on the wrong network was rejected
C11_Witness ==
  /\ upPc[1] = "rejected" /\ upResponse[1] = NetworkMismatch
  /\ ran[1] = <<"tar">> /\ registry = {}

\* the manifest of request r can be read: schema marker right, and a v2 document
\* comes with the name of one of its services
Readable(r) ==
  /\ upReq[r].manifest.schema
  /\ IsV2Manifest(upReq[r].manifest) => upReq[r].serviceName \in upReq[r].manifest.services.names

\* C12: on a node without GPU capability a manifest that requests a GPU is
\* rejected with the unsupported-resource error, before any build step.
C12_GpuRejected ==
  \A r \in UpReqs :
    (Checked(r) /\ Readable(r) /\ upReq[r].manifest.gpu /\ ~env.GPU_ENABLED) =>
      /\ upPc[r] = "rejected"
      /\ upResponse[r] = GpuNotSupported
      /\ NothingBuilt(r)

\* C12 witness: the gpu request was the manifest's only fault
C12_Witness ==
  /\ ~env.GPU_ENABLED /\ upReq[1].manifest.gpu
  /\ upReq[1].manifest.targets = <<Target("mandala", ProjectUuid, "mainnet")>>
  /\ upPc[1] = "rejected" /\ upResponse[1] = GpuNotSupported

\* C13: a v2 manifest without a service selector, or with a selector that names
\* none of its declared services, is rejected with the selector error and no
\* image is built or pushed.
C13_SelectorRequired ==
  \A r \in UpReqs :
    LET m == upReq[r].manifest IN
    (Checked(r) /\ m.schema /\ IsV2Manifest(m)
       /\ upReq[r].serviceName \notin m.services.names) =>
      /\ upPc[r] = "rejected"
      /\ upResponse[r] = SelectorNeeded
      /\ NothingBuilt(r)

\* a deployments entry that names this tenant
NamesTenant(t) == t.provider = "mandala" /\ t.projectID = ProjectUuid

\* request r got as far as the deployment-target check
TargetsChecked(r) ==
  /\ Checked(r) /\ Readable(r)
  /\ ~(upReq[r].manifest.gpu /\ ~env.GPU_ENABLED)

\* C14: the target check passes whenever some declared target names this tenant
\* and the tenant's network, in any position; it fails with the no-match error
\* when no target names the tenant, and with the network error only when targets
\* name the tenant but none of them has the tenant's network.
C14_TargetMatch ==
  \A r \in UpReqs :
    LET targets == upReq[r].manifest.targets
        named   == {i \in 1..Len(targets) : NamesTenant(targets[i])} IN
    TargetsChecked(r) =>
      /\ (\E i \in named : targets[i].network = ProjectNetwork) =>
            upResponse[r] \notin {NoDeployConfig, NetworkMismatch}
      /\ named = {} => upResponse[r] = NoDeployConfig
      /\ upResponse[r] = NetworkMismatch =>
            (named # {} /\ \A i \in named : targets[i].network # ProjectNetwork)

\* ------------------------------------------------ audit feeds (C15, C16)
\* POST /:projectId/logs/project: the tenant's rows whose deploy_id is NULL
\* (upload and deploy rows carry a deploy_id)
LogsProject == {l \in logs : l.src \notin {"upload", "deploy"}}

\* POST /:projectId/logs/deployment/:deploymentId: the rows of that deploy_id
LogsDeployment(d) ==
  {l \in logs : \/ l.src = "deploy" /\ l.id = d
                \/ l.src = "upload" /\ Dep(l.id) = d}

\* the answers with which a pipeline ends at one of its stages
StageErrors ==
  ValidationErrors \cup {"Build context not found", "Frontend directory not found",
                         ErrorHandlingUpload}

\* the pipeline of request r has ended in a failure of one of its stages
PipelineFailed(r) ==
  upPc[r] \in {"rejected", "failed"} /\ upResponse[r] \in StageErrors

\* C15: when a pipeline has failed at a stage, its Deployment is marked failed,
\* the error is in the tenant-level feed and in the deployment-level feed, and
\* the notification of the tenant's admins has been attempted.
C15_FailureRecorded ==
  \A r \in UpReqs :
    PipelineFailed(r) =>
      /\ deployState[Dep(r)] = "Failed"
      /\ \E l \in LogsDeployment(Dep(r)) : l = UpLog(r, upResponse[r])
      /\ \E l \in LogsProject : l.msg = upResponse[r]
      /\ notified[r] # "none"

\* C16: whether the failure email was sent or failed, the request ends the same
\* way: it answers 500 with the pipeline's error, the error's audit row is there,
\* and nothing else is raised.
C16_NotifySwallowed ==
  \A r \in UpReqs :
    notified[r] # "none" =>
      /\ upPc[r] = "failed"
      /\ upResponse[r] = ErrorHandlingUpload
      /\ upError[r] # ""
      /\ UpLog(r, ErrorHandlingUpload) \in logs

\* C16 witness: the email failed after a failed rollout wait
C16_Witness ==
  /\ notified[1] = "error" /\ upError[1] = "rollout status"
  /\ upPc[1] = "failed" /\ upResponse[1] = ErrorHandlingUpload

\* ------------------------------------------------ advertisement refresh (C17)
\* C17: refreshAdvertisement is called only after the rollout wait succeeded,
\* and whatever it comes to (disabled, no wallet, published, error) the request
\* answers success and the Deployment stays rolled out.
C17_RefreshBestEffort ==
  \A r \in UpReqs :
    /\ (\E i \in 1..Len(ran[r]) : ran[r][i] = "refresh advertisement") =>
         (advertised[r] # "none" /\ Succeeded(r, "rollout status"))
    /\ advertised[r] # "none" =>
         /\ upPc[r] = "done"
         /\ upResponse[r] = "Deployment completed successfully"
         /\ upError[r] = "" /\ notified[r] = "none"
         /\ deployState[Dep(r)] = "RolledOut"

\* C17 witness: publishing the advertisement failed, the upload answered success
C17_Witness ==
  /\ advertised[1] = "error" /\ upPc[1] = "done"
  /\ deployState[1] = "RolledOut" /\ release = Revision(1)

\* ------------------------------------------------ tenant deletion (C18)
\* C18: once the deletion of the tenant has removed its release and namespace,
\* no pipeline puts a release, an Ingress or any other resource of the tenant
\* back into the cluster.
C18_DeletionFence ==
  deletePc # "idle" => (~release.installed /\ ~ingress /\ topology = {})

\* ------------------------------------------------ topology (C19, C20)
\* no other upload request is in the middle of its handler
Alone(r) == \A q \in UpReqs \ {r} : upPc[q] \in {"idle", "rejected", "failed", "done"}

\* C19: the chart a pipeline has generated is the one its inputs (manifest,
\* tenant, deployment id) determine, whatever earlier runs left in the staging
\* directory.
C19_Deterministic ==
  \A r \in UpReqs :
    (upPc[r] = "helm" /\ Alone(r)) => staging[Dep(r)] = Compile(Eff(r), Dep(r), upProject[r])

\* C20: applying to the tenant's release a chart equal to the one it runs leaves
\* the applied resources as they were, and every apply addresses the same
\* namespace and the same release.
C20_ApplyIdempotent ==
  /\ [](\A t, u \in topology : t.namespace = u.namespace /\ t.release = u.release)
  /\ [][\A r \in UpReqs :
          (/\ upPc[r] = "helm" /\ upPc'[r] = "rollout"
           /\ \E t \in topology : t.chart = staging[Dep(r)]) =>
             (topology' = topology /\ ingress')]_vars

\* C20 witness: the chart of the running revision was applied again
C20_Witness ==
  /\ upPc[1] = "rollout" /\ release = Revision(1)
  /\ start.release = Revision(0)
  /\ topology = {RevisionZero} /\ staging[1] = RevisionZero.chart

\* the kinds the claim gives the topology of manifest m
ExpectedKinds(m) ==
  {"Workload", "Service", "Autoscaler", "Ingress"}
    \cup (IF "mysql" \in m.databases THEN {"MySQL"} ELSE {})
    \cup (IF "mongo" \in m.databases THEN {"MongoDB"} ELSE {})
    \cup (IF "redis" \in m.databases THEN {"Redis"} ELSE {})
    \cup (IF m.storage THEN {"PersistentVolumeClaim"} ELSE {})

\* C21: the topology a request applied consists of exactly the kinds Workload,
\* Service, Autoscaler and Ingress, plus MySQL, MongoDB or Redis if and only if
\* the manifest's flag of that database is true, plus the agent's persistent
\* volume claim if and only if the manifest declares storage.
C21_TopologyKinds ==
  \A r \in UpReqs :
    release = Revision(r) =>
      \A t \in topology : Kinds(t.chart) = ExpectedKinds(Eff(r))

\* the requests whose chart is written
ChartWritten(r) == upPc[r] \in {"helm", "rollout", "advertise", "done"}

\* the autoscaler the claim gives manifest m
ExpectedHpa(m) == [minReplicas |-> 1, maxReplicas |-> IF m.gpu THEN 1 ELSE 10]

\* C22: the Autoscaler of the chart a request writes, and of the topology it
\* applies, has minimum replicas 1 and maximum replicas 10 when the manifest
\* requests no GPU, exactly 1 when it requests one.
C22_AutoscalerBounds ==
  \A r \in UpReqs :
    /\ ChartWritten(r) => staging[Dep(r)].templates.hpa = ExpectedHpa(Eff(r))
    /\ release = Revision(r) => \A t \in topology : t.chart.templates.hpa = ExpectedHpa(Eff(r))

\* a GPU-requesting manifest was applied on a GPU-capable node: max replicas 1
C22_Witness ==
  \E r \in UpReqs :
    /\ env.GPU_ENABLED
    /\ Eff(r).gpu
    /\ release = Revision(r)
    /\ \E t \in topology : t.chart.templates.hpa.maxReplicas = 1

\* the host names known for the tenant of request r, as the handler read its row
KnownHosts(r) ==
  LET p == upProject[r] IN
  {IngressHostBackend}
    \cup (IF Eff(r).frontend THEN {IngressHostFrontend(Eff(r))} ELSE {})
    \cup (IF p.frontend_custom_domain # NoHost
          THEN {p.frontend_custom_domain, Www(p.frontend_custom_domain)} ELSE {})
    \cup (IF p.backend_custom_domain # NoHost THEN {p.backend_custom_domain} ELSE {})

\* C23: the Ingress a request generates has one TLS certificate entry, whose host
\* list holds every host name known for the tenant (the generated agent host, the
\* generated frontend host when a frontend is declared, every verified custom
\* domain, www.<custom frontend domain>) and every host that has a routing rule.
C23_CertificateSpansHosts ==
  \A r \in UpReqs :
    ChartWritten(r) =>
      LET ing == staging[Dep(r)].templates.ingress IN
      /\ Cardinality(ing.tls) = 1
      /\ \A hosts \in ing.tls : KnownHosts(r) \subseteq hosts /\ ing.rules \subseteq hosts

\* the DNS holds, at the verification subdomain of `domain`, the token of this
\* tenant and `role`
Verified(role, domain) ==
  [host |-> <<"mandala_project">> \o domain,
   txt  |-> <<"mandala-project-verification=", ProjectUuid, ":", role>>] \in dns

\* every custom host name of the projects row and of an applied chart was verified
RecordedVerified ==
  /\ \A role \in Roles :
       DomainOf(project, role) # NoHost => Verified(role, DomainOf(project, role))
  /\ \A t \in topology :
       /\ t.chart.values.ingressCustomFrontend # NoHost
            => Verified("frontend", t.chart.values.ingressCustomFrontend)
       /\ t.chart.values.ingressCustomBackend # NoHost
            => Verified("agent", t.chart.values.ingressCustomBackend)

\* a step of a custom-domain request starts no build and no apply
DomainStepDeploysNothing ==
  domReq' # domReq =>
    UNCHANGED <<ran, registry, release, ingress, topology, staging, upPc, deployState>>

\* C24: a custom host name is recorded for a role only if the TXT lookup at the
\* verification subdomain of that host name returned the token of this tenant and
\* that role, so every custom host name of an applied topology was verified for
\* the tenant and the role; the request that records it builds and applies nothing.
C24_VerifiedBeforeRecorded == []RecordedVerified /\ [][DomainStepDeploysNothing]_vars

\* a verified agent domain is in the topology a later upload applied
C24_Witness ==
  /\ project.backend_custom_domain = <<"example.com">>
  /\ \E k \in DomReqs : domReq[k].lookup = "found" /\ domReq[k].role = "agent"
  /\ \E t \in topology : t.chart.values.ingressCustomBackend = <<"example.com">>

\* request k gets the result of its lookup in this step
LookupReturns(k) == domReq[k].pc = "lookup" /\ domReq'[k].pc # "lookup"

\* C25: when the lookup of a custom-domain request fails or returns no matching
\* token, the request is answered with an error and remediation instructions and
\* the recorded custom host names of both roles stay as they were; a request whose
\* lookup returns the records once the token is published has its host name recorded.
C25_LookupFailureKeepsDomains ==
  [][\A k \in DomReqs :
       LookupReturns(k) =>
         LET q == domReq'[k] IN
         /\ q.lookup \in {"error", "not found"} =>
              /\ q.response \in WithInstructions
              /\ q.pc = "done"
              /\ project' = project
         /\ (q.lookup # "error" /\ Verified(q.role, q.domain)) =>
              /\ q.lookup = "found"
              /\ DomainOf(project', q.role) = q.domain]_vars

\* a request failed for want of the token, and a retry after the record was
\* published was answered with success
C25_Witness ==
  \E j, k \in DomReqs :
    /\ j < k
    /\ domReq[j].lookup = "not found" /\ domReq[j].response = DnsVerificationFailed
    /\ domReq[k].role = domReq[j].role /\ domReq[k].domain = domReq[j].domain
    /\ domReq[k].response = DomainVerified
    /\ DomainOf(project, domReq[k].role) = domReq[k].domain

\* C26: every deployment pipeline that has started (its artifact is stored)
\* eventually terminates, in success or in failure.
C26_PipelineTerminates ==
  \A r \in UpReqs : (upPc[r] = "extract") ~> (upPc[r] \in {"done", "rejected", "failed"})

\* the Dockerfile the claim's order gives a manifest that is built
ExpectedDockerfile(m) ==
  IF m.dockerfile THEN "user dockerfile"
  ELSE IF m.agentType = "agidentity" THEN "agidentity template"
  ELSE "generated from runtime"

\* the commands request r has started
Started(r) == {ran[r][i] : i \in DOMAIN ran[r]}

\* C27: the agent image comes from exactly one method, the first that applies of
\* (a) the pre-built image reference, (b) the Dockerfile the manifest names,
\* (c) the identity-agent template, (d) the Dockerfile generated from the runtime:
\* a manifest with an image reference runs no build and no push, and a manifest
\* that names a Dockerfile is built from it whatever its agent type.
C27_ImageResolutionOrder ==
  \A r \in UpReqs :
    /\ (Eff(r).agent /\ Eff(r).agentImage) =>
         ("build agent" \notin Started(r) /\ "push agent" \notin Started(r))
    /\ "build agent" \in Started(r) => dockerfile[Dep(r)] = ExpectedDockerfile(Eff(r))

\* the variable `key` of a container whose env list is `entries`: the value of
\* the last entry of that name, Undefined when there is none
EnvValue(entries, key) ==
  LET named == {i \in DOMAIN entries : entries[i].name = key}
  IN IF named = {} THEN Undefined
     ELSE entries[CHOOSE i \in named : \A j \in named : j <= i].value

\* C30: in the workload's environment every key has the tenant config's value when
\* the tenant config defines the key, else the manifest's value; the funding key
\* and the network variable are injected if and only if the tenant requires funding.
C30_EnvMerge ==
  \A r \in UpReqs :
    ChartWritten(r) =>
      LET entries == staging[Dep(r)].templates.env
          m       == Eff(r)
          p       == upProject[r] IN
      /\ \A i \in DOMAIN EnvKeys :
           LET key == EnvKeys[i] IN
           IF p.agent_config[key] # Undefined
           THEN EnvValue(entries, key) = p.agent_config[key]
           ELSE m.env[key] # Undefined => EnvValue(entries, key) = m.env[key]
      /\ p.requires_blockchain_funding <=> EnvValue(entries, "SERVER_PRIVATE_KEY") # Undefined
      /\ p.requires_blockchain_funding => EnvValue(entries, "NETWORK") # Undefined

\* the upload request r arrived after the validity window of its URL had elapsed
Expired(r) ==
  /\ upPc[r] # "idle"
  /\ upReq[r].deploymentId \in DeployIds
  /\ clock.arrived[r] > clock.issued[Dep(r)] + UrlValidity

\* C28: an upload request that arrives once the validity window of its signed URL
\* has elapsed is rejected and starts no pipeline.
C28_UrlExpires ==
  \A r \in UpReqs :
    Expired(r) => (upPc[r] \in {"verify", "rejected"} /\ ran[r] = <<>> /\ artifact[Dep(r)] # r)

\* C29: once the tenant's deletion has completed, its release and namespace are
\* gone from the cluster and no ledger entry, deployment record or log row of the
\* tenant is left.
C29_NothingRemains ==
  deletePc = "done" =>
    /\ release = NoRelease
    /\ ~ingress
    /\ topology = {}
    /\ project_accounting = <<>>
    /\ \A d \in DeployIds : ~deploys[d].exists
    /\ logs = {}

\* ---------------------------------------------------------------- C31
\* the opcode and length prefix the minimal push rule prescribes for a byte
\* string of at most 65535 bytes
PushPrefix(data) ==
  CASE Len(data) = 0 -> <<0>>
    [] Len(data) = 1 /\ data[1] = 0 -> <<0>>
    [] Len(data) = 1 /\ data[1] \in 1..16 -> <<80 + data[1]>>
    [] Len(data) = 1 /\ data[1] = 129 -> <<79>>
    [] OTHER ->
         IF Len(data) <= 75 THEN <<Len(data)>>
         ELSE IF Len(data) <= 255 THEN <<76, Len(data)>>
         ELSE <<77, Len(data) % 256, Len(data) \div 256>>

\* whether the rule pushes the bytes themselves after the prefix
PushesData(data) ==
  ~ (Len(data) = 0 \/ (Len(data) = 1 /\ data[1] \in {0, 129} \cup (1..16)))

\* C31: minimalPush encodes every byte string of at most 65535 bytes minimally:
\* empty data and the byte 0x00 give OP_0, a byte v in 1..16 gives 0x50+v, the
\* byte 0x81 gives OP_1NEGATE, and any other data is prefixed by its length
\* (n <= 75), by 0x4c and its length (n <= 255) or by 0x4d and its length as two
\* little-endian bytes (n <= 65535), followed by the data unchanged.
C31_MinimalPush ==
  (pushed # <<>> /\ Len(field) <= 65535) =>
    pushed = PushPrefix(field) \o (IF PushesData(field) THEN field ELSE <<>>)

\* the single byte 0x81 was encoded
C31_Witness ==
  /\ pushed # <<>>
  /\ field = <<129>>

\* ---------------------------------------------------------------- C32
\* the position of stage cmd among the stages request r has started (0 = not started)
StartedAt(r, cmd) ==
  IF \E i \in 1..Len(ran[r]) : ran[r][i] = cmd
  THEN CHOOSE i \in 1..Len(ran[r]) : ran[r][i] = cmd
  ELSE 0

\* stage cmd of request r started directly after stage prev, which had succeeded
DirectlyAfter(r, cmd, prev) ==
  StartedAt(r, cmd) > 0 =>
    /\ StartedAt(r, prev) = StartedAt(r, cmd) - 1
    /\ Succeeded(r, prev)

\* the images the pipeline of manifest m has to build and push itself
RequiredImages(m) ==
  (IF m.agentImage THEN {} ELSE {"agent"})
    \cup (IF m.frontend /\ ~m.frontendImage THEN {"frontend"} ELSE {})

\* request r pushed its image of component c before it started stage cmd
PushedBefore(r, c, cmd) ==
  /\ Succeeded(r, "push " \o c)
  /\ StartedAt(r, "push " \o c) < StartedAt(r, cmd)

\* the tag of the tenant's image of a component for a deployment id
TagForm(component, d) ==
  [registry |-> RegistryHost, namespace |-> Namespace(ProjectUuid),
   component |-> component, deploymentId |-> d]

\* C32: in one pipeline every push directly follows the successful build of the
\* same image, the frontend build starts only after the push of the agent image,
\* the apply starts only after every image the pipeline has to build has been
\* pushed, the rollout wait directly follows a successful apply, and every pushed
\* tag is {registry}/{tenant-namespace}/{component}:{deploymentId}.
C32_StageOrder ==
  /\ \A r \in UpReqs :
       /\ DirectlyAfter(r, "push agent", "build agent")
       /\ DirectlyAfter(r, "push frontend", "build frontend")
       /\ DirectlyAfter(r, "rollout status", "helm upgrade")
       /\ (StartedAt(r, "build frontend") > 0 /\ "agent" \in RequiredImages(Eff(r)))
            => PushedBefore(r, "agent", "build frontend")
       /\ StartedAt(r, "helm upgrade") > 0 =>
            \A c \in RequiredImages(Eff(r)) : PushedBefore(r, c, "helm upgrade")
  /\ \A i \in registry :
       /\ i.ref = TagForm(i.component, i.tag)
       /\ i.tag = Dep(i.by)

\* C32 witness: a pipeline that built and pushed both images is waiting for the rollout
C32_Witness ==
  /\ ran[1] = <<"tar", "build agent", "push agent", "build frontend", "push frontend",
                "helm upgrade", "rollout status">>
  /\ upError[1] = ""
  /\ {i.component : i \in {j \in registry : j.by = 1}} = {"agent", "frontend"}

\* ---------------------------------------------------------------- C33
\* request r answered with an error
FailureResponse(r) == upResponse[r] \notin {"", "Deployment completed successfully"}

\* the tenant's topology before any of the modelled requests ran
TopologyAtStart == IF start.release.installed THEN {RevisionZero} ELSE {}

\* C33: when the only upload request of a tenant ends in a failure response, at
\* whatever stage, the tenant's applied topology is the one it had before the
\* request started.
C33_FailureKeepsTopology ==
  FailureResponse(1) => topology = TopologyAtStart

\* ---------------------------------------------------------------- C34
\* path p has a segment that holds deployment id d
ContainsId(p, d) == \E i \in 1..Len(p) : p[i].id = d

\* the upload requests that have arrived
Arrived == {r \in UpReqs : upPc[r] # "idle"}

\* C34: every path a pipeline has written holds the pipeline's own deployment id,
\* and two pipelines of different deployment ids have written no common path.
C34_StagingScoped ==
  /\ \A r \in Arrived : \A p \in Written(r) : ContainsId(p, Dep(r))
  /\ \A r, q \in Arrived : Dep(r) # Dep(q) => Written(r) \cap Written(q) = {}

\* ---------------------------------------------------------------- C35
\* request r has stored an artifact, started a command, pushed an image or
\* applied a release
Acted(r) ==
  \/ artifact[Dep(r)] = r
  \/ UpLog(r, "File uploaded") \in logs
  \/ ran[r] # <<>>
  \/ \E i \in registry : i.by = r
  \/ release.by = r

\* C35: an upload request that has stored an artifact, built an image or changed
\* the cluster named an existing deployment record, carried a signature that
\* verifies for its deployment id, and read a tenant balance of at least 1 satoshi.
C35_UploadPreconditions ==
  \A r \in Arrived :
    Acted(r) =>
      /\ deploys[Dep(r)].exists
      /\ upReq[r].signature
      /\ upProject[r].balance >= 1

\* C35 witness: a request that passed the three checks has stored its artifact, and
\* nothing else yet
C35_Witness ==
  /\ upPc[1] = "extract"
  /\ artifact[Dep(1)] = 1
  /\ upReq[1].signature /\ upProject[1].balance >= 1 /\ deploys[Dep(1)].exists

\* ---------------------------------------------------------------- C36
\* the agent ports manifest m declares; the default port when it declares none
DeclaredPorts(m) ==
  IF m.ports.present /\ m.ports.list # <<>> THEN m.ports.list
  ELSE IF m.agentType = "agidentity" THEN <<3000>> ELSE <<8080>>

\* the port numbers of the entries of a Service that carry `name`
PortsNamed(service, name) ==
  LET entries == SelectSeq(service.ports, LAMBDA e : e.name = name)
  IN [i \in 1..Len(entries) |-> entries[i].port]

\* the frontend hosts and the agent hosts of the tenant of request r
FrontendHosts(r) ==
  LET p == upProject[r] IN
  (IF Eff(r).frontend THEN {IngressHostFrontend(Eff(r))} ELSE {})
    \cup (IF p.frontend_custom_domain # NoHost
          THEN {p.frontend_custom_domain, Www(p.frontend_custom_domain)} ELSE {})
AgentHosts(r) ==
  LET p == upProject[r] IN
  {IngressHostBackend}
    \cup (IF p.backend_custom_domain # NoHost THEN {p.backend_custom_domain} ELSE {})

\* C36: the Service of a generated chart is headless, has exactly one entry per
\* declared agent port (one for the default port when the manifest declares none)
\* and one entry for port 80 exactly when a frontend is present; every rule of the
\* Ingress for a frontend host routes to port 80 and every rule for an agent host
\* routes to the first declared agent port.
C36_ServicePorts ==
  \A r \in UpReqs :
    ChartWritten(r) =>
      LET chart   == staging[Dep(r)]
          service == Service(chart.templates.service, chart.values)
      IN /\ service.clusterIP = "None"
         /\ PortsNamed(service, "agent") = DeclaredPorts(Eff(r))
         /\ PortsNamed(service, "frontend") = (IF Eff(r).frontend THEN <<80>> ELSE <<>>)
         /\ Len(service.ports) = Len(DeclaredPorts(Eff(r))) + (IF Eff(r).frontend THEN 1 ELSE 0)
         /\ \A route \in chart.templates.routes :
              /\ route.host \in FrontendHosts(r) => route.port = 80
              /\ route.host \in AgentHosts(r) => route.port = DeclaredPorts(Eff(r))[1]

\* ---------------------------------------------------------------- C37
\* the amount of pay request r is a positive number
PositiveNumber(r) == payType[r] = "number" /\ payAmount[r] >= 1

\* C37: a payment request whose amount is not a positive number ends rejected:
\* every step of its handler leaves the tenant's balance, its ledger and its
\* Ingress as they were, and the one step it takes after the lookup is the rejection.
C37_InvalidAmountRejected ==
  [][\A r \in PayReqs :
       (payPc[r] # "idle" /\ ~PositiveNumber(r) /\ payPc'[r] # payPc[r]) =>
          /\ payPc'[r] = "rejected"
          /\ balance' = balance
          /\ project_accounting' = project_accounting
          /\ ingress' = ingress]_vars

\* C37 witness: a payment of -1 satoshi to a suspended tenant was rejected, the
\* balance still negative and the Ingress still absent
C37_Witness ==
  /\ payPc[1] = "rejected"
  /\ payType[1] = "number" /\ payAmount[1] = 0 - 1
  /\ balance < 0 /\ ~ingress
  /\ project_accounting = start.ledger

\* ---------------------------------------------------------------- C38
\* C38: the tenant, which is not deleted, has at least one admin after any
\* sequence and interleaving of addAdmin and removeAdmin requests.
C38_LastAdminStays == project_admins # {}

\* ---------------------------------------------------------------- C39
\* the node identity keys that have had an attestation registered (rows are
\* never deleted, and every row is inserted as the current one)
Attested == {a.node_identity_key : a \in tee_attestations}

\* the current attestations of a node identity key
Current(key) == {a \in tee_attestations : a.node_identity_key = key /\ a.is_current}

\* C39: each node identity key that had a current attestation has exactly one
\* current attestation once no registration is between its two statements: a
\* failed registration leaves the previous one current, a successful one makes
\* the new record the only current one.
C39_OneCurrentAttestation ==
  (\A k \in TeeReqs : teeReq[k].pc \in {"idle", "done", "failed"}) =>
     \A key \in Attested : Cardinality(Current(key)) = 1
====
